---- MODULE Spec2Model ----
(***************************************************************************)
(* Daily Pulse standup tracker: the REST handlers of server/routes.ts over *)
(* the persistence layer of server/storage.ts, the authentication gate and *)
(* the AI pass-through of server/bedrock.ts.                               *)
(*                                                                         *)
(* One action per route handler.  A request is drawn with \E from small    *)
(* sets (the session's user, the :id path parameter, the JSON body, the    *)
(* provider's outcome); the handler's answer is kept in last.              *)
(***************************************************************************)
EXTENDS Integers, Sequences, FiniteSets, TLC

(* ------------------------------ bounds -------------------------------- *)

\* number of rows a run writes outside the edit handlers: standups and weekend
\* stories inserted, plus profile updates
MaxWrites == 1
\* the most user rows the table holds
MaxUsers == 4
\* number of standups ever inserted where lists are examined
MaxListed == 2
\* number of files ever picked in the weekend-story form
MaxFiles == 2

(* ------------------------------ values -------------------------------- *)

\* ids of the registered users that send requests
Users == {1, 2}
\* req.user of a request that carries no authenticated session
NoUser == 0
Actors == Users \cup {NoUser}

\* SQL NULL / JSON null in a text column
Null == "<null>"
\* JSON values of the images column: null, or an array of URLs
JNull == <<"null">>
JArr(s) == <<"array", s>>
\* other JSON values where a field can hold values of several types
JStr(s) == <<"string", s>>
JNum(n) == <<"number", n>>

\* result of parseInt on a string without a leading number
NaN == -1

\* the fields f of a JSON object that are present
Has(obj, f) == f \in DOMAIN obj
\* obj with field f set to v (object spread followed by an own key)
With(obj, f, v) == [k \in DOMAIN obj \cup {f} |-> IF k = f THEN v ELSE obj[k]]
\* obj restricted to the keys of ks
Pick(obj, ks) == [k \in DOMAIN obj \cap ks |-> obj[k]]
\* JavaScript truthiness of a string-valued field that may be absent or null
Truthy(obj, f) == Has(obj, f) /\ obj[f] # Null /\ obj[f] # ""

(* --------------------------- path parameter --------------------------- *)

Digits == {"0", "1", "2", "3", "4", "5", "6", "7", "8", "9"}
DigitVal(c) == CASE c = "0" -> 0 [] c = "1" -> 1 [] c = "2" -> 2 [] c = "3" -> 3
                 [] c = "4" -> 4 [] c = "5" -> 5 [] c = "6" -> 6 [] c = "7" -> 7
                 [] c = "8" -> 8 [] c = "9" -> 9

RECURSIVE LeadingDigits(_)
LeadingDigits(s) ==
  IF s = <<>> \/ Head(s) \notin Digits THEN <<>>
  ELSE <<Head(s)>> \o LeadingDigits(Tail(s))

RECURSIVE DigitsValue(_, _)
DigitsValue(s, acc) ==
  IF s = <<>> THEN acc ELSE DigitsValue(Tail(s), 10 * acc + DigitVal(Head(s)))

\* parseInt(req.params.id): the leading decimal digits, NaN when there are none
parseInt(s) ==
  IF LeadingDigits(s) = <<>> THEN NaN ELSE DigitsValue(LeadingDigits(s), 0)

isNaN(n) == n = NaN

\* the :id path parameters requests carry
IdParams == {<<"1">>, <<"2">>, <<"3">>, <<"2", "x">>, <<"x">>}

(* ------------------------------ requests ------------------------------ *)

\* JSON bodies of POST and PUT /api/standups: a complete one that also carries
\* a userId, an id and a createdAt of the client's choosing, a minimal one,
\* and one without "today"; dates and times are readings of the clock now
StandupBodies ==
  { [yesterday |-> "y1", today |-> "t1", blockers |-> "b1", highlights |-> "h1",
     standupDate |-> 9, userId |-> 2, id |-> 3, createdAt |-> 9],
    [yesterday |-> "y2", today |-> "t2", userId |-> 1],
    [yesterday |-> "y2", blockers |-> "b1"] }

\* JSON bodies of POST and PUT /api/weekend-stories
StoryBodies ==
  { [description |-> "d1", images |-> JArr(<<"u1", "u2">>), userId |-> 2, id |-> 3],
    [description |-> "d2", userId |-> 1],
    [description |-> "d1", images |-> JNull],
    [images |-> JArr(<<"u1">>)] }

(* ------------------------------- schema -------------------------------- *)

\* result of a schema parse that throws ZodError
ZodError == [zodError |-> TRUE]
IsZodError(v) == Has(v, "zodError")

\* a schema that lets unknown keys through (.passthrough())
insertStandupSchema_Passthrough(obj) ==
  IF {"userId", "yesterday", "today"} \subseteq DOMAIN obj THEN obj ELSE ZodError

\* insertStandupSchema.parse: userId, yesterday and today are required,
\* blockers, highlights and standupDate optional; unknown keys are stripped
insertStandupSchema(obj) ==
  IF {"userId", "yesterday", "today"} \subseteq DOMAIN obj
  THEN Pick(obj, {"userId", "yesterday", "today", "blockers", "highlights", "standupDate"})
  ELSE ZodError

\* insertWeekendStorySchema.parse: userId and description are required, images
\* is optional and nullable; unknown keys are stripped
insertWeekendStorySchema(obj) ==
  IF {"userId", "description"} \subseteq DOMAIN obj
  THEN Pick(obj, {"userId", "description", "images"})
  ELSE ZodError

(* ------------------------------- state --------------------------------- *)

\* the browser sessions that can have a request in progress at the same time
Sessions == {"s1", "s2"}
\* a session with no request in progress and no response received
Idle == [pc |-> "idle"]

VARIABLES
  users,          \* table users: id -> row
  standups,       \* table standups: set of rows
  stories,        \* table weekend_stories: set of rows
  nextStandupId,  \* serial of standups.id
  nextStoryId,    \* serial of weekend_stories.id
  now,            \* the server clock
  profileWrites,  \* number of profile updates made so far
  awsConfigured,  \* AWS_ACCESS_KEY_ID and AWS_SECRET_ACCESS_KEY are both set
  createdBy,      \* history: kind -> (id -> the user whose POST created the row)
  ownerWrote,     \* history: story id -> the content its creator wrote last
  last,           \* the last request and the response it got
  flight,         \* session -> the request it has in progress, or its response
  form            \* the weekend-story form open in the browser

vars == <<users, standups, stories, nextStandupId, nextStoryId, now, profileWrites,
          awsConfigured, createdBy, ownerWrote, last, flight, form>>

\* the variables of the server
server == <<users, standups, stories, nextStandupId, nextStoryId, now, profileWrites,
            awsConfigured, createdBy, ownerWrote, last, flight>>

db == <<users, standups, stories>>

(* --------------------------- storage layer ----------------------------- *)

\* db.select().from(standups).where(eq(standups.id, id)): the matching rows
StandupRows(id) == {r \in standups : r.id = id}
StoryRows(id) == {r \in stories : r.id = id}

\* getStandupById without its WHERE clause
getStandupById_NoWhere(id) == standups

\* DatabaseStorage.getStandupById: the row, or undefined (here: no element)
getStandupById(id) == StandupRows(id)
\* DatabaseStorage.getWeekendStoryById
getWeekendStoryById(id) == StoryRows(id)

\* highlights ?? null: only an absent or null value becomes null
HighlightsOrNull_Nullish(data) ==
  IF Has(data, "highlights") THEN data.highlights ELSE Null

\* the value createStandup / updateStandup give the highlights column
HighlightsOrNull(data) == IF Truthy(data, "highlights") THEN data.highlights ELSE Null

\* an id taken from the number of rows stored, this.standups.size + 1
createStandup_SizeAsId(data, t) ==
  [ id          |-> IF Has(data, "id") THEN data.id ELSE Cardinality(standups) + 1,
    userId      |-> data.userId,
    yesterday   |-> data.yesterday,
    today       |-> data.today,
    blockers    |-> IF Has(data, "blockers") THEN data.blockers ELSE Null,
    highlights  |-> HighlightsOrNull(data),
    standupDate |-> IF Has(data, "standupDate") THEN data.standupDate ELSE t,
    createdAt   |-> IF Has(data, "createdAt") THEN data.createdAt ELSE t ]

\* the row INSERT ... RETURNING yields for createStandup(insertStandup) at time t:
\* the columns the data names, the serial and the clock for id and createdAt
\* when it names none
createStandup(data, t) ==
  [ id          |-> IF Has(data, "id") THEN data.id ELSE nextStandupId,
    userId      |-> data.userId,
    yesterday   |-> data.yesterday,
    today       |-> data.today,
    blockers    |-> IF Has(data, "blockers") THEN data.blockers ELSE Null,
    highlights  |-> HighlightsOrNull(data),
    standupDate |-> IF Has(data, "standupDate") THEN data.standupDate ELSE t,
    createdAt   |-> IF Has(data, "createdAt") THEN data.createdAt ELSE t ]

\* the row UPDATE ... SET ... RETURNING yields for updateStandup(id, insertStandup)
\* on the stored row old: the columns the data names, and highlights always
updateStandup(old, data) ==
  [ id          |-> IF Has(data, "id") THEN data.id ELSE old.id,
    userId      |-> data.userId,
    yesterday   |-> data.yesterday,
    today       |-> data.today,
    blockers    |-> IF Has(data, "blockers") THEN data.blockers ELSE old.blockers,
    highlights  |-> HighlightsOrNull(data),
    standupDate |-> IF Has(data, "standupDate") THEN data.standupDate ELSE old.standupDate,
    createdAt   |-> IF Has(data, "createdAt") THEN data.createdAt ELSE old.createdAt ]

\* images: Array.isArray(insertStory.images) ? insertStory.images : null
ImagesOrNull(data) ==
  IF Has(data, "images") /\ data.images[1] = "array" THEN data.images ELSE JNull

\* the row createWeekendStory(insertStory) inserts at time t
createWeekendStory(data, t) ==
  [ id          |-> nextStoryId,
    userId      |-> data.userId,
    description |-> data.description,
    images      |-> ImagesOrNull(data),
    createdAt   |-> t ]

\* the row updateWeekendStory(id, insertStory) leaves in place of old
updateWeekendStory(old, data) ==
  [ id          |-> old.id,
    userId      |-> data.userId,
    description |-> data.description,
    images      |-> ImagesOrNull(data),
    createdAt   |-> old.createdAt ]

\* the orders in which a scan can meet the rows of a table: ORDER BY leaves
\* the order of rows with equal keys open
ScanOrders(rows) ==
  {h \in [1..Cardinality(rows) -> rows] : \A i, j \in DOMAIN h : i # j => h[i] # h[j]}

\* row r put into the list sorted by descending createdAt, behind its equals
RECURSIVE InsertDesc(_, _)
InsertDesc(r, sorted) ==
  IF sorted = <<>> THEN <<r>>
  ELSE IF Head(sorted).createdAt >= r.createdAt
       THEN <<Head(sorted)>> \o InsertDesc(r, Tail(sorted))
       ELSE <<r>> \o sorted

\* a query that leaves out the ORDER BY
OrderByDesc_Unsorted(scan) == scan

\* .orderBy(desc(createdAt)) over the rows in scan order
RECURSIVE OrderByDesc(_)
OrderByDesc(scan) ==
  IF scan = <<>> THEN <<>>
  ELSE InsertDesc(scan[Len(scan)], OrderByDesc(SubSeq(scan, 1, Len(scan) - 1)))

\* the join without the fallback: the username column as the LEFT JOIN yields it
WithUsername_NoFallback(r) ==
  With(r, "username",
       IF r.userId \in DOMAIN users THEN users[r.userId].username ELSE Null)

\* .leftJoin(users, eq(row.userId, users.id)) and the fallback
\* username: item.username || "Unknown User"
WithUsername(r) ==
  With(r, "username",
       IF r.userId \in DOMAIN users /\ users[r.userId].username # ""
       THEN users[r.userId].username ELSE "Unknown User")

\* DatabaseStorage.getAllStandups / getAllWeekendStories over one scan order
getAllStandups(scan) == [i \in DOMAIN scan |-> WithUsername(OrderByDesc(scan)[i])]
getAllWeekendStories(scan) == [i \in DOMAIN scan |-> WithUsername(OrderByDesc(scan)[i])]

(* ------------------------- authentication gate ------------------------- *)

\* req.isAuthenticated(): the request carries a session bound to a user
isAuthenticated(actor) == actor # NoUser

\* a gate that calls next() for every request
ensureAuthenticated_Open(actor) == TRUE

\* ensureAuthenticated lets the request through to the handler
ensureAuthenticated(actor) == isAuthenticated(actor)

(* ------------------------------ responses ------------------------------ *)

Message(m) == [message |-> m]
Unauthorized == Message("Unauthorized")
InternalError == Message("Internal server error")
\* fromZodError(error).message
ValidationError == Message("Validation error")
NoBody == <<>>
NoReq == <<>>

\* the request as far as the handler read it (route, session user, parsed :id,
\* JSON body) and the response sent for it: status, body, the number of storage
\* operations and of provider calls made
Reply(route, actor, id, req, status, body, ops, calls) ==
  last' = [route |-> route, actor |-> actor, id |-> id, req |-> req,
           status |-> status, body |-> body, ops |-> ops, calls |-> calls]

\* rows written so far that count against MaxWrites
Writes == (nextStandupId - 1) + (nextStoryId - 1) + profileWrites

(* --------------------------- standup handlers -------------------------- *)

\* an ownership check that never fires
NotOwner_Never(existing, actor) == FALSE

\* existingStandup.userId !== req.user!.id
NotOwner(existing, actor) == existing.userId # actor

\* the spread in the other order, { userId: req.user.id, ...req.body }: a
\* userId in the body wins
WithActor_TrustBody(body, actor) ==
  IF Has(body, "userId") THEN body ELSE With(body, "userId", actor)

\* { ...req.body, userId: req.user.id }
WithActor(body, actor) == With(body, "userId", actor)

\* app.post("/api/standups", ensureAuthenticated, ...)
PostStandupHandler(actor, body, t) ==
  LET route == "POST /api/standups" IN
  IF ~ensureAuthenticated(actor) \/ actor = NoUser
  THEN Reply(route, actor, NaN, NoReq, 401, Unauthorized, 0, 0)
       /\ UNCHANGED <<standups, nextStandupId, now, createdBy>>
  ELSE LET validatedData == insertStandupSchema(WithActor(body, actor)) IN
       IF IsZodError(validatedData)
       THEN Reply(route, actor, NaN, body, 400, ValidationError, 0, 0)
            /\ UNCHANGED <<standups, nextStandupId, now, createdBy>>
       ELSE LET createdStandup == createStandup(validatedData, t) IN
            /\ standups' = standups \cup {createdStandup}
            /\ nextStandupId' = nextStandupId + 1
            /\ now' = t
            /\ createdBy' = [createdBy EXCEPT !.standup =
                               With(createdBy.standup, createdStandup.id, actor)]
            /\ Reply(route, actor, NaN, body, 201, createdStandup, 1, 0)

PostStandup(actors, bodies) ==
  \E actor \in actors, body \in bodies :
    /\ Writes < MaxWrites
    /\ PostStandupHandler(actor, body, now + 1)
    /\ UNCHANGED <<form, flight, users, stories, nextStoryId, profileWrites, awsConfigured, ownerWrote>>

\* app.get("/api/standups", ensureAuthenticated, ...)
GetStandupsHandler(actor, scan) ==
  LET route == "GET /api/standups" IN
  IF ~ensureAuthenticated(actor)
  THEN Reply(route, actor, NaN, NoReq, 401, Unauthorized, 0, 0)
  ELSE Reply(route, actor, NaN, NoReq, 200, getAllStandups(scan), 1, 0)

GetStandups(actors) ==
  \E actor \in actors, scan \in ScanOrders(standups) :
    /\ GetStandupsHandler(actor, scan)
    /\ UNCHANGED <<form, flight, users, standups, stories, nextStandupId, nextStoryId, now,
                   profileWrites, awsConfigured, createdBy, ownerWrote>>

\* a handler that runs the update before it looks at the owner
PutStandupHandler_UpdateFirst(actor, idParam, body) ==
  LET route == "PUT /api/standups/:id"
      standupId == parseInt(idParam)
      existing == getStandupById(standupId)
  IN
  IF ~ensureAuthenticated(actor)
  THEN Reply(route, actor, NaN, NoReq, 401, Unauthorized, 0, 0)
       /\ UNCHANGED <<standups, createdBy>>
  ELSE IF isNaN(standupId)
  THEN Reply(route, actor, standupId, NoReq, 400, Message("Invalid standup ID"), 0, 0)
       /\ UNCHANGED <<standups, createdBy>>
  ELSE IF existing = {}
  THEN Reply(route, actor, standupId, NoReq, 404, Message("Standup not found"), 1, 0)
       /\ UNCHANGED <<standups, createdBy>>
  ELSE IF actor = NoUser
  THEN Reply(route, actor, standupId, NoReq, 500, InternalError, 1, 0)
       /\ UNCHANGED <<standups, createdBy>>
  ELSE LET existingStandup == CHOOSE r \in existing : TRUE
           validatedData ==
             insertStandupSchema(With(WithActor(body, actor), "id", standupId))
       IN
       IF IsZodError(validatedData)
       THEN Reply(route, actor, standupId, body, 400, ValidationError, 1, 0)
            /\ UNCHANGED <<standups, createdBy>>
       ELSE LET updatedStandup == updateStandup(existingStandup, validatedData) IN
            /\ standups' = (standups \ existing) \cup {updatedStandup}
            /\ UNCHANGED createdBy
            /\ IF NotOwner(existingStandup, actor)
               THEN Reply(route, actor, standupId, body, 403,
                          Message("You can only edit your own standups"), 2, 0)
               ELSE Reply(route, actor, standupId, body, 200, updatedStandup, 2, 0)

\* app.put("/api/standups/:id", ensureAuthenticated, ...)
PutStandupHandler(actor, idParam, body) ==
  LET route == "PUT /api/standups/:id"
      standupId == parseInt(idParam)
      existing == getStandupById(standupId)
  IN
  IF ~ensureAuthenticated(actor)
  THEN Reply(route, actor, NaN, NoReq, 401, Unauthorized, 0, 0)
       /\ UNCHANGED <<standups, createdBy>>
  ELSE IF isNaN(standupId)
  THEN Reply(route, actor, standupId, NoReq, 400, Message("Invalid standup ID"), 0, 0)
       /\ UNCHANGED <<standups, createdBy>>
  ELSE IF existing = {}
  THEN Reply(route, actor, standupId, NoReq, 404, Message("Standup not found"), 1, 0)
       /\ UNCHANGED <<standups, createdBy>>
  ELSE IF actor = NoUser
  THEN \* req.user!.id of an undefined req.user throws a TypeError
       Reply(route, actor, standupId, NoReq, 500, InternalError, 1, 0)
       /\ UNCHANGED <<standups, createdBy>>
  ELSE LET existingStandup == CHOOSE r \in existing : TRUE IN
       IF NotOwner(existingStandup, actor)
       THEN Reply(route, actor, standupId, NoReq, 403,
                  Message("You can only edit your own standups"), 1, 0)
            /\ UNCHANGED <<standups, createdBy>>
       ELSE LET validatedData ==
                  insertStandupSchema(With(WithActor(body, actor), "id", standupId))
            IN
            IF IsZodError(validatedData)
            THEN Reply(route, actor, standupId, body, 400, ValidationError, 1, 0)
                 /\ UNCHANGED <<standups, createdBy>>
            ELSE LET updatedStandup == updateStandup(existingStandup, validatedData) IN
                 /\ standups' = (standups \ existing) \cup {updatedStandup}
                 /\ Reply(route, actor, standupId, body, 200, updatedStandup, 2, 0)
                 /\ UNCHANGED createdBy

PutStandup(actors, idParams, bodies) ==
  \E actor \in actors, idParam \in idParams, body \in bodies :
    /\ PutStandupHandler(actor, idParam, body)
    /\ UNCHANGED <<form, flight, users, stories, nextStandupId, nextStoryId, now, profileWrites,
                   awsConfigured, ownerWrote>>

\* app.delete("/api/standups/:id", ensureAuthenticated, ...)
DeleteStandupHandler(actor, idParam) ==
  LET route == "DELETE /api/standups/:id"
      standupId == parseInt(idParam)
      existing == getStandupById(standupId)
  IN
  IF ~ensureAuthenticated(actor)
  THEN Reply(route, actor, NaN, NoReq, 401, Unauthorized, 0, 0)
       /\ UNCHANGED <<standups, createdBy>>
  ELSE IF isNaN(standupId)
  THEN Reply(route, actor, standupId, NoReq, 400, Message("Invalid standup ID"), 0, 0)
       /\ UNCHANGED <<standups, createdBy>>
  ELSE IF existing = {}
  THEN Reply(route, actor, standupId, NoReq, 404, Message("Standup not found"), 1, 0)
       /\ UNCHANGED <<standups, createdBy>>
  ELSE IF actor = NoUser
  THEN Reply(route, actor, standupId, NoReq, 500, InternalError, 1, 0)
       /\ UNCHANGED <<standups, createdBy>>
  ELSE LET existingStandup == CHOOSE r \in existing : TRUE IN
       IF NotOwner(existingStandup, actor)
       THEN Reply(route, actor, standupId, NoReq, 403,
                  Message("You can only delete your own standups"), 1, 0)
            /\ UNCHANGED <<standups, createdBy>>
       ELSE /\ standups' = standups \ existing
            /\ createdBy' = [createdBy EXCEPT !.standup =
                               Pick(createdBy.standup, DOMAIN createdBy.standup \ {standupId})]
            /\ Reply(route, actor, standupId, NoReq, 204, NoBody, 2, 0)

DeleteStandup(actors, idParams) ==
  \E actor \in actors, idParam \in idParams :
    /\ DeleteStandupHandler(actor, idParam)
    /\ UNCHANGED <<form, flight, users, stories, nextStandupId, nextStoryId, now, profileWrites,
                   awsConfigured, ownerWrote>>

(* ---------------- standup handlers, statement by statement -------------- *)

\* Between its awaits a handler runs alone; the statements it awaits run in the
\* database one at a time.  A handler that edits a standup is two steps: up to
\* the point where it issues its UPDATE or DELETE, and that statement with the
\* response that follows it.

\* the response a session has received; stale: the row the statement met was
\* not the row the existence check had read
Done(route, actor, id, req, status, body, stale) ==
  [pc |-> "done", route |-> route, actor |-> actor, id |-> id, req |-> req,
   status |-> status, body |-> body, stale |-> stale]

\* a handler between its existence check and its statement: the row the check
\* read (existingStandup) and the validated data
Checked(route, actor, id, req, data, seen) ==
  [pc |-> "checked", route |-> route, actor |-> actor, id |-> id, req |-> req,
   data |-> data, seen |-> seen]

Responds(s, response) == flight' = [flight EXCEPT ![s] = response]

\* PUT /api/standups/:id up to await storage.updateStandup(standupId, validatedData)
PutStandupCheck(s, actor, idParam, body) ==
  LET route == "PUT /api/standups/:id"
      standupId == parseInt(idParam)
      existing == getStandupById(standupId)
  IN
  IF ~ensureAuthenticated(actor)
  THEN Responds(s, Done(route, actor, NaN, NoReq, 401, Unauthorized, FALSE))
  ELSE IF isNaN(standupId)
  THEN Responds(s, Done(route, actor, standupId, NoReq, 400,
                        Message("Invalid standup ID"), FALSE))
  ELSE IF existing = {}
  THEN Responds(s, Done(route, actor, standupId, NoReq, 404,
                        Message("Standup not found"), FALSE))
  ELSE LET existingStandup == CHOOSE r \in existing : TRUE IN
       IF NotOwner(existingStandup, actor)
       THEN Responds(s, Done(route, actor, standupId, NoReq, 403,
                             Message("You can only edit your own standups"), FALSE))
       ELSE LET validatedData ==
                  insertStandupSchema(With(WithActor(body, actor), "id", standupId))
            IN
            IF IsZodError(validatedData)
            THEN Responds(s, Done(route, actor, standupId, body, 400,
                                  ValidationError, FALSE))
            ELSE Responds(s, Checked(route, actor, standupId, body, validatedData,
                                     existingStandup))

\* an update that compares the row with the one the check read and answers 409
\* when they differ
PutStandupWrite_Versioned(s) ==
  LET r == flight[s]
      rows == getStandupById(r.id)
  IN
  IF rows = {} \/ rows # {r.seen}
  THEN /\ standups' = standups
       /\ Responds(s, Done(r.route, r.actor, r.id, r.req, 409,
                           Message("Standup was modified"), TRUE))
  ELSE LET updatedStandup == updateStandup(r.seen, r.data) IN
       /\ standups' = (standups \ rows) \cup {updatedStandup}
       /\ Responds(s, Done(r.route, r.actor, r.id, r.req, 200, updatedStandup, FALSE))

\* the UPDATE ... WHERE id = standupId RETURNING of storage.updateStandup and
\* res.json(updatedStandup).  When no row has the id the statement changes
\* nothing and returns no row: updatedStandup is undefined and res.json sends
\* 200 with an empty body.
PutStandupWrite(s) ==
  LET r == flight[s]
      rows == getStandupById(r.id)
  IN
  IF rows = {}
  THEN /\ standups' = standups
       /\ Responds(s, Done(r.route, r.actor, r.id, r.req, 200, NoBody, TRUE))
  ELSE LET current == CHOOSE row \in rows : TRUE
           updatedStandup == updateStandup(current, r.data)
       IN
       /\ standups' = (standups \ rows) \cup {updatedStandup}
       /\ Responds(s, Done(r.route, r.actor, r.id, r.req, 200, updatedStandup,
                           current # r.seen))

\* DELETE /api/standups/:id up to await storage.deleteStandup(standupId)
DeleteStandupCheck(s, actor, idParam) ==
  LET route == "DELETE /api/standups/:id"
      standupId == parseInt(idParam)
      existing == getStandupById(standupId)
  IN
  IF ~ensureAuthenticated(actor)
  THEN Responds(s, Done(route, actor, NaN, NoReq, 401, Unauthorized, FALSE))
  ELSE IF isNaN(standupId)
  THEN Responds(s, Done(route, actor, standupId, NoReq, 400,
                        Message("Invalid standup ID"), FALSE))
  ELSE IF existing = {}
  THEN Responds(s, Done(route, actor, standupId, NoReq, 404,
                        Message("Standup not found"), FALSE))
  ELSE LET existingStandup == CHOOSE r \in existing : TRUE IN
       IF NotOwner(existingStandup, actor)
       THEN Responds(s, Done(route, actor, standupId, NoReq, 403,
                             Message("You can only delete your own standups"), FALSE))
       ELSE Responds(s, Checked(route, actor, standupId, NoReq, NoBody,
                                existingStandup))

\* the DELETE ... WHERE id = standupId of storage.deleteStandup and
\* res.status(204).send()
DeleteStandupWrite(s) ==
  LET r == flight[s]
      rows == getStandupById(r.id)
  IN
  /\ standups' = standups \ rows
  /\ createdBy' = [createdBy EXCEPT !.standup =
                     Pick(createdBy.standup, DOMAIN createdBy.standup \ {r.id})]
  /\ Responds(s, Done(r.route, r.actor, r.id, r.req, 204, NoBody, rows # {r.seen}))

\* a session sends a PUT while it has no request in progress
PutStandupBegin(actors, idParams, bodies) ==
  \E s \in Sessions, actor \in actors, idParam \in idParams, body \in bodies :
    /\ flight[s].pc # "checked"
    /\ PutStandupCheck(s, actor, idParam, body)
    /\ UNCHANGED <<form, db, nextStandupId, nextStoryId, now, profileWrites, awsConfigured,
                   createdBy, ownerWrote, last>>

PutStandupEnd ==
  \E s \in Sessions :
    /\ flight[s].pc = "checked"
    /\ flight[s].route = "PUT /api/standups/:id"
    /\ PutStandupWrite(s)
    /\ UNCHANGED <<form, users, stories, nextStandupId, nextStoryId, now, profileWrites,
                   awsConfigured, createdBy, ownerWrote, last>>

DeleteStandupBegin(actors, idParams) ==
  \E s \in Sessions, actor \in actors, idParam \in idParams :
    /\ flight[s].pc # "checked"
    /\ DeleteStandupCheck(s, actor, idParam)
    /\ UNCHANGED <<form, db, nextStandupId, nextStoryId, now, profileWrites, awsConfigured,
                   createdBy, ownerWrote, last>>

DeleteStandupEnd ==
  \E s \in Sessions :
    /\ flight[s].pc = "checked"
    /\ flight[s].route = "DELETE /api/standups/:id"
    /\ DeleteStandupWrite(s)
    /\ UNCHANGED <<form, users, stories, nextStandupId, nextStoryId, now, profileWrites,
                   awsConfigured, ownerWrote, last>>

(* ------------------------ weekend-story handlers ----------------------- *)

\* the content of a story row that the history ownerWrote keeps
Content(row) == [description |-> row.description, images |-> row.images]

\* app.post("/api/weekend-stories", ensureAuthenticated, ...)
PostStoryHandler(actor, body, t) ==
  LET route == "POST /api/weekend-stories" IN
  IF ~ensureAuthenticated(actor) \/ actor = NoUser
  THEN Reply(route, actor, NaN, NoReq, 401, Unauthorized, 0, 0)
       /\ UNCHANGED <<stories, nextStoryId, now, createdBy, ownerWrote>>
  ELSE LET validatedData == insertWeekendStorySchema(WithActor(body, actor)) IN
       IF IsZodError(validatedData)
       THEN Reply(route, actor, NaN, body, 400, ValidationError, 0, 0)
            /\ UNCHANGED <<stories, nextStoryId, now, createdBy, ownerWrote>>
       ELSE LET createdStory == createWeekendStory(validatedData, t) IN
            /\ stories' = stories \cup {createdStory}
            /\ nextStoryId' = nextStoryId + 1
            /\ now' = t
            /\ createdBy' = [createdBy EXCEPT !.story =
                               With(createdBy.story, createdStory.id, actor)]
            /\ ownerWrote' = With(ownerWrote, createdStory.id, Content(createdStory))
            /\ Reply(route, actor, NaN, body, 201, createdStory, 1, 0)

PostStory(actors, bodies) ==
  \E actor \in actors, body \in bodies :
    /\ Writes < MaxWrites
    /\ PostStoryHandler(actor, body, now + 1)
    /\ UNCHANGED <<form, flight, users, standups, nextStandupId, profileWrites, awsConfigured>>

\* app.get("/api/weekend-stories", ensureAuthenticated, ...)
GetStoriesHandler(actor, scan) ==
  LET route == "GET /api/weekend-stories" IN
  IF ~ensureAuthenticated(actor)
  THEN Reply(route, actor, NaN, NoReq, 401, Unauthorized, 0, 0)
  ELSE Reply(route, actor, NaN, NoReq, 200, getAllWeekendStories(scan), 1, 0)

GetStories(actors) ==
  \E actor \in actors, scan \in ScanOrders(stories) :
    /\ GetStoriesHandler(actor, scan)
    /\ UNCHANGED <<form, flight, users, standups, stories, nextStandupId, nextStoryId, now,
                   profileWrites, awsConfigured, createdBy, ownerWrote>>

\* app.get("/api/weekend-stories/:id", ensureAuthenticated, ...)
GetStoryHandler(actor, idParam) ==
  LET route == "GET /api/weekend-stories/:id"
      storyId == parseInt(idParam)
      story == getWeekendStoryById(storyId)
  IN
  IF ~ensureAuthenticated(actor)
  THEN Reply(route, actor, NaN, NoReq, 401, Unauthorized, 0, 0)
  ELSE IF isNaN(storyId)
  THEN Reply(route, actor, storyId, NoReq, 400, Message("Invalid weekend story ID"), 0, 0)
  ELSE IF story = {}
  THEN Reply(route, actor, storyId, NoReq, 404, Message("Weekend story not found"), 1, 0)
  ELSE Reply(route, actor, storyId, NoReq, 200, CHOOSE r \in story : TRUE, 1, 0)

GetStory(actors, idParams) ==
  \E actor \in actors, idParam \in idParams :
    /\ GetStoryHandler(actor, idParam)
    /\ UNCHANGED <<form, flight, users, standups, stories, nextStandupId, nextStoryId, now,
                   profileWrites, awsConfigured, createdBy, ownerWrote>>

\* app.put("/api/weekend-stories/:id", ensureAuthenticated, ...)
PutStoryHandler(actor, idParam, body) ==
  LET route == "PUT /api/weekend-stories/:id"
      storyId == parseInt(idParam)
      existing == getWeekendStoryById(storyId)
  IN
  IF ~ensureAuthenticated(actor)
  THEN Reply(route, actor, NaN, NoReq, 401, Unauthorized, 0, 0)
       /\ UNCHANGED <<stories, createdBy, ownerWrote>>
  ELSE IF isNaN(storyId)
  THEN Reply(route, actor, storyId, NoReq, 400, Message("Invalid weekend story ID"), 0, 0)
       /\ UNCHANGED <<stories, createdBy, ownerWrote>>
  ELSE IF existing = {}
  THEN Reply(route, actor, storyId, NoReq, 404, Message("Weekend story not found"), 1, 0)
       /\ UNCHANGED <<stories, createdBy, ownerWrote>>
  ELSE IF actor = NoUser
  THEN \* req.user!.id of an undefined req.user throws a TypeError
       Reply(route, actor, storyId, NoReq, 500, InternalError, 1, 0)
       /\ UNCHANGED <<stories, createdBy, ownerWrote>>
  ELSE LET existingStory == CHOOSE r \in existing : TRUE IN
       IF NotOwner(existingStory, actor)
       THEN Reply(route, actor, storyId, NoReq, 403,
                  Message("You can only edit your own weekend stories"), 1, 0)
            /\ UNCHANGED <<stories, createdBy, ownerWrote>>
       ELSE LET validatedData ==
                  insertWeekendStorySchema(With(WithActor(body, actor), "id", storyId))
            IN
            IF IsZodError(validatedData)
            THEN Reply(route, actor, storyId, body, 400, ValidationError, 1, 0)
                 /\ UNCHANGED <<stories, createdBy, ownerWrote>>
            ELSE LET updatedStory == updateWeekendStory(existingStory, validatedData) IN
                 /\ stories' = (stories \ existing) \cup {updatedStory}
                 /\ ownerWrote' = IF actor = createdBy.story[storyId]
                                  THEN With(ownerWrote, storyId, Content(updatedStory))
                                  ELSE ownerWrote
                 /\ Reply(route, actor, storyId, body, 200, updatedStory, 2, 0)
                 /\ UNCHANGED createdBy

PutStory(actors, idParams, bodies) ==
  \E actor \in actors, idParam \in idParams, body \in bodies :
    /\ PutStoryHandler(actor, idParam, body)
    /\ UNCHANGED <<form, flight, users, standups, nextStandupId, nextStoryId, now, profileWrites,
                   awsConfigured>>

\* app.delete("/api/weekend-stories/:id", ensureAuthenticated, ...)
DeleteStoryHandler(actor, idParam) ==
  LET route == "DELETE /api/weekend-stories/:id"
      storyId == parseInt(idParam)
      existing == getWeekendStoryById(storyId)
  IN
  IF ~ensureAuthenticated(actor)
  THEN Reply(route, actor, NaN, NoReq, 401, Unauthorized, 0, 0)
       /\ UNCHANGED <<stories, createdBy, ownerWrote>>
  ELSE IF isNaN(storyId)
  THEN Reply(route, actor, storyId, NoReq, 400, Message("Invalid weekend story ID"), 0, 0)
       /\ UNCHANGED <<stories, createdBy, ownerWrote>>
  ELSE IF existing = {}
  THEN Reply(route, actor, storyId, NoReq, 404, Message("Weekend story not found"), 1, 0)
       /\ UNCHANGED <<stories, createdBy, ownerWrote>>
  ELSE IF actor = NoUser
  THEN Reply(route, actor, storyId, NoReq, 500, InternalError, 1, 0)
       /\ UNCHANGED <<stories, createdBy, ownerWrote>>
  ELSE LET existingStory == CHOOSE r \in existing : TRUE IN
       IF NotOwner(existingStory, actor)
       THEN Reply(route, actor, storyId, NoReq, 403,
                  Message("You can only delete your own weekend stories"), 1, 0)
            /\ UNCHANGED <<stories, createdBy, ownerWrote>>
       ELSE /\ stories' = stories \ existing
            /\ createdBy' = [createdBy EXCEPT !.story =
                               Pick(createdBy.story, DOMAIN createdBy.story \ {storyId})]
            /\ ownerWrote' = Pick(ownerWrote, DOMAIN ownerWrote \ {storyId})
            /\ Reply(route, actor, storyId, NoReq, 204, NoBody, 2, 0)

DeleteStory(actors, idParams) ==
  \E actor \in actors, idParam \in idParams :
    /\ DeleteStoryHandler(actor, idParam)
    /\ UNCHANGED <<form, flight, users, standups, nextStandupId, nextStoryId, now, profileWrites,
                   awsConfigured>>

(* ---------------------------- user profile ---------------------------- *)

\* JSON bodies of PUT /api/user
UserBodies ==
  { << >>,
    [jiraProfileId |-> "J1", id |-> 2, firstName |-> "Eve", avatar |-> "a.png"],
    [username |-> "bob"],
    [username |-> "carol", password |-> "hunter2"] }

\* the salts randomBytes(16) can return
Salts == {"s1", "s2"}

\* hashPassword(password): `${scrypt(password, salt)}.${salt}` for a random salt
hashPassword(password, salt) == <<"scrypt", password, salt>>

\* updateData taken over from the body, { ...req.body }, with the password as sent
UpdateData_WholeBody(body, salt) == body

\* the updateData PUT /api/user builds from the body
UpdateData(body, salt) ==
  LET u1 == IF Truthy(body, "username") THEN [username |-> body.username] ELSE << >>
      u2 == IF Truthy(body, "password")
            THEN With(u1, "password", hashPassword(body.password, salt)) ELSE u1
  IN  IF Has(body, "jiraProfileId") THEN With(u2, "jiraProfileId", body.jiraProfileId)
      ELSE u2

\* the usernames registrations ask for
Usernames == {"alice", "carol", "dave"}

\* the values createUser is called with: the username, the hashed password
InsertUser(username, salt) ==
  [username |-> username, password |-> hashPassword("secret", salt)]

\* DatabaseStorage.createUser(insertUser) throws: the INSERT breaks the unique
\* constraint on users.username
createUserThrows(insertUser) ==
  \E o \in DOMAIN users : users[o].username = insertUser.username

\* the row INSERT INTO users ... RETURNING yields for createUser(insertUser);
\* the serial id is taken as the first id above the rows there are (user rows
\* are never removed; the ids a refused INSERT uses up are not kept track of)
createUser(insertUser) ==
  [ id            |-> Cardinality(DOMAIN users) + 1,
    username      |-> insertUser.username,
    password      |-> insertUser.password,
    firstName     |-> IF Has(insertUser, "firstName") THEN insertUser.firstName ELSE Null,
    lastName      |-> IF Has(insertUser, "lastName") THEN insertUser.lastName ELSE Null,
    jiraProfileId |-> IF Has(insertUser, "jiraProfileId")
                      THEN insertUser.jiraProfileId ELSE Null,
    avatar        |-> IF Has(insertUser, "avatar") THEN insertUser.avatar ELSE Null ]

\* a call of storage.createUser, as the registration makes it; last keeps the
\* call and what it returned or that it threw, with no HTTP status
CreateUser(usernames) ==
  \E username \in usernames, salt \in Salts :
    LET insertUser == InsertUser(username, salt) IN
    /\ Cardinality(DOMAIN users) < MaxUsers
    /\ IF createUserThrows(insertUser)
       THEN /\ users' = users
            /\ Reply("storage.createUser", NoUser, NaN, insertUser, 0, [threw |-> TRUE], 1, 0)
       ELSE /\ users' = [u \in DOMAIN users \cup {createUser(insertUser).id} |->
                          IF u \in DOMAIN users THEN users[u] ELSE createUser(insertUser)]
            /\ Reply("storage.createUser", NoUser, NaN, insertUser, 0,
                     createUser(insertUser), 1, 0)
    /\ UNCHANGED <<form, flight, standups, stories, nextStandupId, nextStoryId, now,
                   profileWrites, awsConfigured, createdBy, ownerWrote>>

\* an UPDATE that meets no unique constraint
updateUserThrows_NoConstraint(id, userData) == DOMAIN userData = {}

\* DatabaseStorage.updateUser(id, userData) throws: an UPDATE with nothing to set,
\* or one that breaks the unique constraint on users.username
updateUserThrows(id, userData) ==
  \/ DOMAIN userData = {}
  \/ /\ Has(userData, "username")
     /\ \E o \in DOMAIN users : o # id /\ users[o].username = userData.username

\* the row updateUser(id, userData) leaves and returns
updateUser(id, userData) ==
  [f \in DOMAIN users[id] |-> IF f \in DOMAIN userData THEN userData[f] ELSE users[id][f]]

\* app.put("/api/user", ensureAuthenticated, ...)
PutUserHandler(actor, body, salt) ==
  LET route == "PUT /api/user" IN
  IF ~ensureAuthenticated(actor) \/ actor = NoUser
  THEN Reply(route, actor, NaN, NoReq, 401, Unauthorized, 0, 0)
       /\ UNCHANGED <<users, profileWrites>>
  ELSE LET updateData == UpdateData(body, salt) IN
       IF updateUserThrows(actor, updateData)
       THEN Reply(route, actor, NaN, body, 500, InternalError, 1, 0)
            /\ UNCHANGED <<users, profileWrites>>
       ELSE /\ users' = [users EXCEPT ![actor] = updateUser(actor, updateData)]
            /\ profileWrites' = profileWrites + 1
            /\ Reply(route, actor, NaN, body, 200, updateUser(actor, updateData), 1, 0)

PutUser(actors, bodies) ==
  \E actor \in actors, body \in bodies, salt \in Salts :
    /\ Writes < MaxWrites
    /\ PutUserHandler(actor, body, salt)
    /\ UNCHANGED <<form, flight, standups, stories, nextStandupId, nextStoryId, now, awsConfigured,
                   createdBy, ownerWrote>>

(* ------------------------------ AI provider ---------------------------- *)

\* getDefaultPrompts()
getDefaultPrompts ==
  << "What are the recurring blockers in my team's standups?",
     "What trends do you see in our daily work?",
     "Summarize the main achievements from the past week",
     "What areas should our team focus on based on recent standups?",
     "Identify any potential risks or issues from our recent standups" >>

\* a completion text: its characters, and what content.match(/\{[\s\S]*\}/)
\* followed by JSON.parse makes of it: no match, a match that does not parse,
\* or the parsed object
Text(raw, json) == [raw |-> raw, json |-> json]
Texts ==
  { Text("", <<"none">>),
    Text("Blockers recur on Mondays.", <<"none">>),
    Text("{prompts: oops}", <<"invalid">>),
    Text("{\"prompts\": \"p1\"}", <<"object", [prompts |-> JStr("p1")]>>),
    Text("Sure: {\"prompts\": [\"p1\", \"p2\"]}",
         <<"object", [prompts |-> JArr(<<"p1", "p2">>)]>>) }

\* what bedrockClient.send(command) and the decoding of response.body can do:
\* throw (with the error's name), yield a body that is not JSON, a JSON body
\* without content, or a JSON body whose content[0].text is a completion
ProviderOutcomes ==
  { [kind |-> "throw", name |-> "UnrecognizedClientException"],
    [kind |-> "throw", name |-> "TimeoutError"],
    [kind |-> "garbage"],
    [kind |-> "nocontent"] }
  \cup { [kind |-> "text", text |-> t] : t \in Texts }

\* a function that returns no prompts where the reply holds none
generatePromptSuggestionsWithBedrock_EmptyOnMiss(outcome) ==
  IF outcome.kind \in {"throw", "garbage"} THEN getDefaultPrompts
  ELSE LET json == IF outcome.kind = "text" THEN outcome.text.json ELSE <<"none">> IN
       IF json[1] = "object" /\ Has(json[2], "prompts") /\ json[2].prompts[1] = "array"
       THEN json[2].prompts[2]
       ELSE << >>

\* generatePromptSuggestionsWithBedrock(standupData) on one provider outcome
generatePromptSuggestionsWithBedrock(outcome) ==
  IF outcome.kind \in {"throw", "garbage"} THEN getDefaultPrompts
  ELSE LET json == IF outcome.kind = "text" THEN outcome.text.json ELSE <<"none">> IN
       IF json[1] = "object" /\ Has(json[2], "prompts") /\ json[2].prompts[1] = "array"
       THEN json[2].prompts[2]
       ELSE getDefaultPrompts

\* the Error analyzeStandupWithBedrock throws on a failed call, by the name of
\* the error caught
AnalyzeError(name) ==
  IF name \in {"UnrecognizedClientException", "AccessDeniedException"}
  THEN "AWS Bedrock API credentials are invalid. Please check your AWS configuration."
  ELSE "Failed to analyze standup data using AWS Bedrock. Please try again later."

\* analyzeStandupWithBedrock(standupData, prompt): the returned string, or the
\* message of the Error thrown
analyzeStandupWithBedrock(outcome) ==
  CASE outcome.kind = "throw" -> [threw |-> TRUE, message |-> AnalyzeError(outcome.name)]
    [] outcome.kind = "garbage" -> [threw |-> TRUE, message |-> AnalyzeError("SyntaxError")]
    [] outcome.kind = "nocontent" ->
         [threw |-> FALSE, content |-> "Sorry, I couldn't analyze the standup data."]
    [] outcome.kind = "text" ->
         [threw |-> FALSE,
          content |-> IF outcome.text.raw # "" THEN outcome.text.raw
                      ELSE "Sorry, I couldn't analyze the standup data."]

\* JSON bodies of POST /api/analyze and POST /api/analyze-standups
AnalyzeBodies ==
  { << >>,
    [prompt |-> JStr("")],
    [prompt |-> JNum(5), standups |-> JArr(<<"s1">>)],
    [prompt |-> JStr("Any blockers?")],
    [prompt |-> JStr("Any blockers?"), standups |-> JNum(7)],
    [prompt |-> JStr("Any blockers?"), standups |-> JArr(<< >>)],
    [prompt |-> JStr("Any blockers?"), standups |-> JArr(<<"s1">>)] }

\* JavaScript truthiness of a JSON value
JTruthy(v) == v # JNull /\ v # JStr("") /\ v # JNum(0)
\* a check for the key alone, prompt === undefined
NoPrompt_Undefined(body) == ~Has(body, "prompt")

\* !prompt
NoPrompt(body) == ~(Has(body, "prompt") /\ JTruthy(body.prompt))
\* typeof prompt === 'string'
IsString(v) == v[1] = "string"
\* Array.isArray(standups)
IsArray(v) == v[1] = "array"

\* what an analysis handler has read of its request when it answers: the
\* credentials in the environment, the JSON body, the provider's outcome
Env(configured) == [configured |-> configured]
Asked(configured, body) == [configured |-> configured, body |-> body]
Called(configured, body, outcome) ==
  [configured |-> configured, body |-> body, outcome |-> outcome]

\* app.post("/api/analyze", ensureAuthenticated, ...)
AnalyzeHandler(actor, configured, body, scan, outcome) ==
  LET route == "POST /api/analyze" IN
  IF ~ensureAuthenticated(actor)
  THEN Reply(route, actor, NaN, NoReq, 401, Unauthorized, 0, 0)
  ELSE IF ~configured
  THEN Reply(route, actor, NaN, Asked(configured, body), 500,
             Message("AWS credentials are not configured"), 0, 0)
  ELSE IF NoPrompt(body) \/ ~IsString(body.prompt)
  THEN Reply(route, actor, NaN, Asked(configured, body), 400,
             Message("Prompt is required"), 0, 0)
  ELSE IF getAllStandups(scan) = << >>
  THEN Reply(route, actor, NaN, Asked(configured, body), 400,
             Message("No standup data available for analysis"), 1, 0)
  ELSE LET analysis == analyzeStandupWithBedrock(outcome) IN
       IF analysis.threw
       THEN Reply(route, actor, NaN, Called(configured, body, outcome), 500,
                  Message(analysis.message), 1, 1)
       ELSE Reply(route, actor, NaN, Called(configured, body, outcome), 200,
                  [analysis |-> analysis.content], 1, 1)

\* a handler that clears the standups it has analysed
Analyze_Archiving(actors, bodies, outcomes) ==
  \E actor \in actors, body \in bodies, scan \in ScanOrders(standups),
     outcome \in outcomes :
    /\ AnalyzeHandler(actor, awsConfigured, body, scan, outcome)
    /\ standups' = IF last'.status = 200 THEN {} ELSE standups
    /\ UNCHANGED <<form, flight, users, stories, nextStandupId, nextStoryId, now,
                   profileWrites, awsConfigured, createdBy, ownerWrote>>

Analyze(actors, bodies, outcomes) ==
  \E actor \in actors, body \in bodies, scan \in ScanOrders(standups),
     outcome \in outcomes :
    /\ AnalyzeHandler(actor, awsConfigured, body, scan, outcome)
    /\ UNCHANGED <<form, flight, users, standups, stories, nextStandupId, nextStoryId, now,
                   profileWrites, awsConfigured, createdBy, ownerWrote>>

\* app.post("/api/analyze-standups", ensureAuthenticated, ...)
AnalyzeStandupsHandler(actor, configured, body, outcome) ==
  LET route == "POST /api/analyze-standups" IN
  IF ~ensureAuthenticated(actor)
  THEN Reply(route, actor, NaN, NoReq, 401, Unauthorized, 0, 0)
  ELSE IF NoPrompt(body) \/ ~(Has(body, "standups") /\ JTruthy(body.standups))
          \/ ~IsArray(body.standups)
  THEN Reply(route, actor, NaN, Asked(configured, body), 400,
             Message("Invalid request. Prompt and standups array are required."), 0, 0)
  ELSE IF outcome.kind # "text"
  THEN \* send or JSON.parse throws, or parsedResponse.content[0] is undefined
       Reply(route, actor, NaN, Called(configured, body, outcome), 500,
             Message("Error analyzing standups"), 0, 1)
  ELSE Reply(route, actor, NaN, Called(configured, body, outcome), 200,
             [analysis |-> outcome.text.raw], 0, 1)

AnalyzeStandups(actors, bodies, outcomes) ==
  \E actor \in actors, body \in bodies, outcome \in outcomes :
    /\ AnalyzeStandupsHandler(actor, awsConfigured, body, outcome)
    /\ UNCHANGED <<form, flight, users, standups, stories, nextStandupId, nextStoryId, now,
                   profileWrites, awsConfigured, createdBy, ownerWrote>>

\* app.get("/api/prompt-suggestions", ensureAuthenticated, ...)
PromptSuggestionsHandler(actor, configured, scan, outcome) ==
  LET route == "GET /api/prompt-suggestions" IN
  IF ~ensureAuthenticated(actor)
  THEN Reply(route, actor, NaN, NoReq, 401, Unauthorized, 0, 0)
  ELSE IF ~configured
  THEN Reply(route, actor, NaN, Env(configured), 500,
             Message("AWS credentials are not configured"), 0, 0)
  ELSE IF getAllStandups(scan) = << >>
  THEN Reply(route, actor, NaN, Env(configured), 200, [suggestions |-> << >>], 1, 0)
  ELSE Reply(route, actor, NaN, Called(configured, NoBody, outcome), 200,
             [suggestions |-> generatePromptSuggestionsWithBedrock(outcome)], 1, 1)

PromptSuggestions(actors, outcomes) ==
  \E actor \in actors, scan \in ScanOrders(standups), outcome \in outcomes :
    /\ PromptSuggestionsHandler(actor, awsConfigured, scan, outcome)
    /\ UNCHANGED <<form, flight, users, standups, stories, nextStandupId, nextStoryId, now,
                   profileWrites, awsConfigured, createdBy, ownerWrote>>

\* the operator of the server sets or clears the AWS credentials in the
\* environment the handlers read
SetCredentials ==
  /\ awsConfigured' = ~awsConfigured
  /\ UNCHANGED <<form, flight, users, standups, stories, nextStandupId, nextStoryId, now,
                 profileWrites, createdBy, ownerWrote, last>>

(* --------------------------- storage failures -------------------------- *)

\* A storage operation is a query on the database connection; when the query is
\* rejected the awaited promise rejects and the handler's catch block runs.  The
\* handlers below are the handlers above on a request during which the k-th
\* storage operation of the handler throws; a query that throws writes nothing.

\* the errors a query can throw
StorageErrors ==
  { [name |-> "Error", message |-> "Connection terminated unexpectedly"],
    [name |-> "error", message |-> "relation \"standups\" does not exist"] }

\* a catch block that passes the error's message on, as POST /api/analyze does
CaughtBody_Message(error) == Message(error.message)

\* the body a catch block sends for an error that is not a ZodError
CaughtBody(error) == InternalError

\* the response of a catch block; last keeps the error that was caught
Caught(route, actor, id, req, error, ops) ==
  last' = [route |-> route, actor |-> actor, id |-> id, req |-> req,
           status |-> 500, body |-> CaughtBody(error), ops |-> ops, calls |-> 0,
           error |-> error]

\* POST /api/standups when storage.createStandup throws
PostStandupFailing(actor, body, error) ==
  LET route == "POST /api/standups" IN
  IF ~ensureAuthenticated(actor) \/ actor = NoUser
  THEN Reply(route, actor, NaN, NoReq, 401, Unauthorized, 0, 0)
  ELSE IF IsZodError(insertStandupSchema(WithActor(body, actor)))
  THEN Reply(route, actor, NaN, body, 400, ValidationError, 0, 0)
  ELSE Caught(route, actor, NaN, body, error, 1)

\* GET /api/standups when storage.getAllStandups throws
GetStandupsFailing(actor, error) ==
  LET route == "GET /api/standups" IN
  IF ~ensureAuthenticated(actor)
  THEN Reply(route, actor, NaN, NoReq, 401, Unauthorized, 0, 0)
  ELSE Caught(route, actor, NaN, NoReq, error, 1)

\* PUT /api/standups/:id when getStandupById (k = 1) or updateStandup (k = 2)
\* throws
PutStandupFailing(actor, idParam, body, k, error) ==
  LET route == "PUT /api/standups/:id"
      standupId == parseInt(idParam)
      existing == getStandupById(standupId)
  IN
  IF ~ensureAuthenticated(actor)
  THEN Reply(route, actor, NaN, NoReq, 401, Unauthorized, 0, 0)
  ELSE IF isNaN(standupId)
  THEN Reply(route, actor, standupId, NoReq, 400, Message("Invalid standup ID"), 0, 0)
  ELSE IF k = 1
  THEN Caught(route, actor, standupId, NoReq, error, 1)
  ELSE IF existing = {}
  THEN Reply(route, actor, standupId, NoReq, 404, Message("Standup not found"), 1, 0)
  ELSE IF actor = NoUser
  THEN Reply(route, actor, standupId, NoReq, 500, InternalError, 1, 0)
  ELSE IF NotOwner(CHOOSE r \in existing : TRUE, actor)
  THEN Reply(route, actor, standupId, NoReq, 403,
             Message("You can only edit your own standups"), 1, 0)
  ELSE IF IsZodError(insertStandupSchema(With(WithActor(body, actor), "id", standupId)))
  THEN Reply(route, actor, standupId, body, 400, ValidationError, 1, 0)
  ELSE Caught(route, actor, standupId, body, error, 2)

\* DELETE /api/standups/:id when getStandupById (k = 1) or deleteStandup
\* (k = 2) throws
DeleteStandupFailing(actor, idParam, k, error) ==
  LET route == "DELETE /api/standups/:id"
      standupId == parseInt(idParam)
      existing == getStandupById(standupId)
  IN
  IF ~ensureAuthenticated(actor)
  THEN Reply(route, actor, NaN, NoReq, 401, Unauthorized, 0, 0)
  ELSE IF isNaN(standupId)
  THEN Reply(route, actor, standupId, NoReq, 400, Message("Invalid standup ID"), 0, 0)
  ELSE IF k = 1
  THEN Caught(route, actor, standupId, NoReq, error, 1)
  ELSE IF existing = {}
  THEN Reply(route, actor, standupId, NoReq, 404, Message("Standup not found"), 1, 0)
  ELSE IF actor = NoUser
  THEN Reply(route, actor, standupId, NoReq, 500, InternalError, 1, 0)
  ELSE IF NotOwner(CHOOSE r \in existing : TRUE, actor)
  THEN Reply(route, actor, standupId, NoReq, 403,
             Message("You can only delete your own standups"), 1, 0)
  ELSE Caught(route, actor, standupId, NoReq, error, 2)

\* POST /api/weekend-stories when storage.createWeekendStory throws
PostStoryFailing(actor, body, error) ==
  LET route == "POST /api/weekend-stories" IN
  IF ~ensureAuthenticated(actor) \/ actor = NoUser
  THEN Reply(route, actor, NaN, NoReq, 401, Unauthorized, 0, 0)
  ELSE IF IsZodError(insertWeekendStorySchema(WithActor(body, actor)))
  THEN Reply(route, actor, NaN, body, 400, ValidationError, 0, 0)
  ELSE Caught(route, actor, NaN, body, error, 1)

\* GET /api/weekend-stories when storage.getAllWeekendStories throws
GetStoriesFailing(actor, error) ==
  LET route == "GET /api/weekend-stories" IN
  IF ~ensureAuthenticated(actor)
  THEN Reply(route, actor, NaN, NoReq, 401, Unauthorized, 0, 0)
  ELSE Caught(route, actor, NaN, NoReq, error, 1)

\* GET /api/weekend-stories/:id when storage.getWeekendStoryById throws
GetStoryFailing(actor, idParam, error) ==
  LET route == "GET /api/weekend-stories/:id"
      storyId == parseInt(idParam)
  IN
  IF ~ensureAuthenticated(actor)
  THEN Reply(route, actor, NaN, NoReq, 401, Unauthorized, 0, 0)
  ELSE IF isNaN(storyId)
  THEN Reply(route, actor, storyId, NoReq, 400, Message("Invalid weekend story ID"), 0, 0)
  ELSE Caught(route, actor, storyId, NoReq, error, 1)

\* PUT /api/weekend-stories/:id when getWeekendStoryById (k = 1) or
\* updateWeekendStory (k = 2) throws
PutStoryFailing(actor, idParam, body, k, error) ==
  LET route == "PUT /api/weekend-stories/:id"
      storyId == parseInt(idParam)
      existing == getWeekendStoryById(storyId)
  IN
  IF ~ensureAuthenticated(actor)
  THEN Reply(route, actor, NaN, NoReq, 401, Unauthorized, 0, 0)
  ELSE IF isNaN(storyId)
  THEN Reply(route, actor, storyId, NoReq, 400, Message("Invalid weekend story ID"), 0, 0)
  ELSE IF k = 1
  THEN Caught(route, actor, storyId, NoReq, error, 1)
  ELSE IF existing = {}
  THEN Reply(route, actor, storyId, NoReq, 404, Message("Weekend story not found"), 1, 0)
  ELSE IF actor = NoUser
  THEN Reply(route, actor, storyId, NoReq, 500, InternalError, 1, 0)
  ELSE IF NotOwner(CHOOSE r \in existing : TRUE, actor)
  THEN Reply(route, actor, storyId, NoReq, 403,
             Message("You can only edit your own weekend stories"), 1, 0)
  ELSE IF IsZodError(insertWeekendStorySchema(With(WithActor(body, actor), "id", storyId)))
  THEN Reply(route, actor, storyId, body, 400, ValidationError, 1, 0)
  ELSE Caught(route, actor, storyId, body, error, 2)

\* DELETE /api/weekend-stories/:id when getWeekendStoryById (k = 1) or
\* deleteWeekendStory (k = 2) throws
DeleteStoryFailing(actor, idParam, k, error) ==
  LET route == "DELETE /api/weekend-stories/:id"
      storyId == parseInt(idParam)
      existing == getWeekendStoryById(storyId)
  IN
  IF ~ensureAuthenticated(actor)
  THEN Reply(route, actor, NaN, NoReq, 401, Unauthorized, 0, 0)
  ELSE IF isNaN(storyId)
  THEN Reply(route, actor, storyId, NoReq, 400, Message("Invalid weekend story ID"), 0, 0)
  ELSE IF k = 1
  THEN Caught(route, actor, storyId, NoReq, error, 1)
  ELSE IF existing = {}
  THEN Reply(route, actor, storyId, NoReq, 404, Message("Weekend story not found"), 1, 0)
  ELSE IF actor = NoUser
  THEN Reply(route, actor, storyId, NoReq, 500, InternalError, 1, 0)
  ELSE IF NotOwner(CHOOSE r \in existing : TRUE, actor)
  THEN Reply(route, actor, storyId, NoReq, 403,
             Message("You can only delete your own weekend stories"), 1, 0)
  ELSE Caught(route, actor, storyId, NoReq, error, 2)

\* PUT /api/user when storage.updateUser throws
PutUserFailing(actor, body, error) ==
  LET route == "PUT /api/user" IN
  IF ~ensureAuthenticated(actor) \/ actor = NoUser
  THEN Reply(route, actor, NaN, NoReq, 401, Unauthorized, 0, 0)
  ELSE Caught(route, actor, NaN, body, error, 1)

\* a request to a standup route during which a storage operation throws
StandupRequestFails(actors, idParams, bodies) ==
  \E actor \in actors, idParam \in idParams, body \in bodies, k \in {1, 2},
     error \in StorageErrors :
    /\ \/ PostStandupFailing(actor, body, error)
       \/ GetStandupsFailing(actor, error)
       \/ PutStandupFailing(actor, idParam, body, k, error)
       \/ DeleteStandupFailing(actor, idParam, k, error)
    /\ UNCHANGED <<form, flight, db, nextStandupId, nextStoryId, now, profileWrites,
                   awsConfigured, createdBy, ownerWrote>>

\* a request to a weekend-story route during which a storage operation throws
StoryRequestFails(actors, idParams, bodies) ==
  \E actor \in actors, idParam \in idParams, body \in bodies, k \in {1, 2},
     error \in StorageErrors :
    /\ \/ PostStoryFailing(actor, body, error)
       \/ GetStoriesFailing(actor, error)
       \/ GetStoryFailing(actor, idParam, error)
       \/ PutStoryFailing(actor, idParam, body, k, error)
       \/ DeleteStoryFailing(actor, idParam, k, error)
    /\ UNCHANGED <<form, flight, db, nextStandupId, nextStoryId, now, profileWrites,
                   awsConfigured, createdBy, ownerWrote>>

\* a PUT /api/user during which storage.updateUser throws
UserRequestFails(actors, bodies) ==
  \E actor \in actors, body \in bodies, error \in StorageErrors :
    /\ PutUserFailing(actor, body, error)
    /\ UNCHANGED <<form, flight, db, nextStandupId, nextStoryId, now, profileWrites,
                   awsConfigured, createdBy, ownerWrote>>

(* -------------------------- weekend-story form ------------------------- *)

\* The page pages/weekend-story-form.tsx: its component state imageFiles and
\* imagePreviewUrls, the story the query loaded in edit mode, and the imageUrls
\* of the payload the last submit sent.  A URL is a pair of its kind and a
\* number: a stored image, an object URL made for a picked file, a placeholder
\* made at submit.  Picked File objects are numbered as they are picked;
\* indexes are counted from 0 as in the page.

\* weekendStory.imageUrls of the stories the page is opened on for editing
LoadedImageUrls == { << >>, << <<"stored", 1>> >>, << <<"stored", 1>>, <<"stored", 2>> >> }

\* URL.createObjectURL(file)
createObjectURL(file) == <<"blob", file>>

\* `https://placeholder-image-url.com/image-${Date.now()}-${index}.jpg`
PlaceholderUrl(index) == <<"placeholder", index>>

\* no page mounted
NoForm ==
  [mode |-> "closed", weekendStory |-> << >>, imageFiles |-> << >>,
   imagePreviewUrls |-> << >>, picked |-> 0, sent |-> "nothing", imageUrls |-> << >>]

\* array.splice(index, 1) on a copy of the array
Splice(array, index) ==
  [i \in 1 .. (Len(array) - 1) |-> IF i <= index THEN array[i] ELSE array[i + 1]]

\* handleImageChange with e.target.files holding the File objects newFiles
handleImageChange(f, newFiles) ==
  IF Len(newFiles) = 0 THEN f
  ELSE [f EXCEPT !.imageFiles = @ \o newFiles,
                 !.imagePreviewUrls =
                    @ \o [i \in DOMAIN newFiles |-> createObjectURL(newFiles[i])],
                 !.picked = @ + Len(newFiles)]

\* removeImage(index)
removeImage(f, index) ==
  IF index < Len(f.imagePreviewUrls)
  THEN [f EXCEPT !.imagePreviewUrls = Splice(@, index),
                 !.imageFiles = IF index < Len(f.imageFiles) THEN Splice(@, index) ELSE @]
  ELSE f

\* the imageUrls of the payload updateMutation sends
UpdateImageUrls(f) ==
  f.weekendStory \o [i \in DOMAIN f.imageFiles |-> PlaceholderUrl(i - 1)]

\* the imageUrls of the payload createMutation sends; the key is left out
\* (here: the empty sequence) when no file is picked
CreateImageUrls(f) == [i \in DOMAIN f.imageFiles |-> PlaceholderUrl(i - 1)]

\* the page is opened on /weekend-stories/new
OpenCreate ==
  /\ form.mode = "closed"
  /\ form' = [NoForm EXCEPT !.mode = "create", !.picked = form.picked]
  /\ UNCHANGED server

\* the page is opened on a story for editing; the query loads the story and
\* the effect puts its images, when it has any, into the previews
OpenEdit ==
  \E imageUrls \in LoadedImageUrls :
    /\ form.mode = "closed"
    /\ form' = [NoForm EXCEPT !.mode = "edit", !.picked = form.picked,
                              !.weekendStory = imageUrls,
                              !.imagePreviewUrls = imageUrls]
    /\ UNCHANGED server

\* the user picks n files in the file input
HandleImageChange ==
  \E n \in 1 .. 2 :
    /\ form.mode \in {"create", "edit"}
    /\ form.picked + n <= MaxFiles
    /\ form' = handleImageChange(form, [i \in 1 .. n |-> form.picked + i])
    /\ UNCHANGED server

\* the user clicks the remove button of the preview at index
RemoveImage ==
  \E index \in 0 .. (Len(form.imagePreviewUrls) - 1) :
    /\ form.mode \in {"create", "edit"}
    /\ form' = removeImage(form, index)
    /\ UNCHANGED server

\* the user submits the page in edit mode: updateMutation sends the PUT
SubmitUpdate ==
  /\ form.mode = "edit"
  /\ form' = [form EXCEPT !.mode = "submitted", !.sent = "PUT",
                          !.imageUrls = UpdateImageUrls(form)]
  /\ UNCHANGED server

\* the user submits the page in create mode: createMutation sends the POST
SubmitCreate ==
  /\ form.mode = "create"
  /\ form' = [form EXCEPT !.mode = "submitted", !.sent = "POST",
                          !.imageUrls = CreateImageUrls(form)]
  /\ UNCHANGED server

\* the page is left, by setLocation after a submit or by Cancel
Leave ==
  /\ form.mode # "closed"
  /\ form' = [NoForm EXCEPT !.picked = form.picked]
  /\ UNCHANGED server

(* --------------------------- specification ----------------------------- *)

\* the user rows present when the server starts
InitialUsers ==
  [u \in Users |->
     [id |-> u, username |-> IF u = 1 THEN "alice" ELSE "bob",
      password |-> <<"scrypt", "secret", "s0">>,
      firstName |-> Null, lastName |-> Null, jiraProfileId |-> Null, avatar |-> Null]]

Init ==
  /\ users = InitialUsers
  /\ standups = {}
  /\ stories = {}
  /\ nextStandupId = 1
  /\ nextStoryId = 1
  /\ now = 1
  /\ profileWrites = 0
  /\ awsConfigured = TRUE
  /\ createdBy = [standup |-> <<>>, story |-> <<>>]
  /\ ownerWrote = <<>>
  /\ last = [route |-> "none", actor |-> NoUser, id |-> NaN, req |-> NoReq,
             status |-> 0, body |-> NoBody, ops |-> 0, calls |-> 0]
  /\ flight = [s \in Sessions |-> Idle]
  /\ form = NoForm

\* the standup and weekend-story routes, with every request of the sets above
Next ==
  \/ PostStandup(Actors, StandupBodies)
  \/ GetStandups(Actors)
  \/ PutStandup(Actors, IdParams, StandupBodies)
  \/ DeleteStandup(Actors, IdParams)
  \/ PostStory(Actors, StoryBodies)
  \/ GetStories(Actors)
  \/ GetStory(Actors, IdParams)
  \/ PutStory(Actors, IdParams, StoryBodies)
  \/ DeleteStory(Actors, IdParams)

Spec == Init /\ [][Next]_vars

\* two inserts can read the same time from the database clock
PostStandupAt(actors, bodies, max) ==
  \E actor \in actors, body \in bodies, t \in {now, now + 1} :
    /\ nextStandupId <= max
    /\ PostStandupHandler(actor, body, t)
    /\ UNCHANGED <<form, flight, users, stories, nextStoryId, profileWrites, awsConfigured, ownerWrote>>

\* the standup routes as signed-in users call them, over up to MaxListed standups
NextList ==
  \/ PostStandupAt(Users, StandupBodies, MaxListed)
  \/ GetStandups(Users)
  \/ PutStandup(Users, {<<"1">>, <<"2">>, <<"3">>}, StandupBodies)
  \/ DeleteStandup(Users, {<<"1">>, <<"2">>, <<"3">>})

SpecList == Init /\ [][NextList]_vars

\* the requests of the specifications below: one user with and one without a
\* session, one well-formed body per route, an id that parses and one that
\* does not
OneStandupBody == {b \in StandupBodies : Has(b, "highlights")}
OneStoryBody == {b \in StoryBodies : Has(b, "userId") /\ Has(b, "images")}
TwoIdParams == {<<"1">>, <<"x">>}
TwoOutcomes == {o \in ProviderOutcomes :
                  \/ o.kind = "throw" /\ o.name = "TimeoutError"
                  \/ o.kind = "text" /\ o.text.json[1] = "object"
                                     /\ o.text.json[2].prompts[1] = "array"}

\* the analysis routes over a standups table that one user fills and empties
NextAnalysis ==
  \/ PostStandup({1}, OneStandupBody)
  \/ DeleteStandup({1}, {<<"1">>, <<"2">>})
  \/ Analyze({1, NoUser}, AnalyzeBodies, ProviderOutcomes)
  \/ AnalyzeStandups({1, NoUser}, AnalyzeBodies, ProviderOutcomes)
  \/ PromptSuggestions({1, NoUser}, ProviderOutcomes)
  \/ SetCredentials

SpecAnalysis == Init /\ [][NextAnalysis]_vars

\* every protected route
NextRoutes ==
  \/ PostStandup(Actors, OneStandupBody)
  \/ GetStandups(Actors)
  \/ PutStandup(Actors, TwoIdParams, OneStandupBody)
  \/ DeleteStandup(Actors, TwoIdParams)
  \/ PostStory(Actors, OneStoryBody)
  \/ GetStories(Actors)
  \/ GetStory(Actors, TwoIdParams)
  \/ PutStory(Actors, TwoIdParams, OneStoryBody)
  \/ DeleteStory(Actors, TwoIdParams)
  \/ PutUser(Actors, UserBodies)
  \/ Analyze(Actors, AnalyzeBodies, TwoOutcomes)
  \/ AnalyzeStandups(Actors, AnalyzeBodies, TwoOutcomes)
  \/ PromptSuggestions(Actors, TwoOutcomes)
  \/ SetCredentials

SpecRoutes == Init /\ [][NextRoutes]_vars

\* JSON bodies of POST and PUT /api/standups with empty and missing texts
TextBodies ==
  { [yesterday |-> "", today |-> "t1"],
    [yesterday |-> "y1", today |-> "", blockers |-> ""],
    [today |-> "t2"],
    [yesterday |-> "y1", today |-> "t1"] }

\* the standup routes that take a body, with the bodies above
NextTexts ==
  \/ PostStandup(Users, TextBodies)
  \/ GetStandups(Users)
  \/ PutStandup(Users, {<<"1">>, <<"2">>}, TextBodies)
  \/ DeleteStandup(Users, {<<"1">>, <<"2">>})

SpecTexts == Init /\ [][NextTexts]_vars

\* the bodies of StandupBodies that pass validation
ValidBodies == {b \in StandupBodies : Has(b, "yesterday") /\ Has(b, "today")}

\* requests of two sessions on one standup that overlap in time
NextFlights ==
  \/ PostStandup({1}, ValidBodies)
  \/ PutStandupBegin(Users, {<<"1">>}, ValidBodies)
  \/ PutStandupEnd
  \/ DeleteStandupBegin(Users, {<<"1">>})
  \/ DeleteStandupEnd

SpecFlights == Init /\ [][NextFlights]_vars

PostStoryAt(actors, bodies, max) ==
  \E actor \in actors, body \in bodies :
    /\ nextStoryId <= max
    /\ PostStoryHandler(actor, body, now + 1)
    /\ UNCHANGED <<form, flight, users, standups, nextStandupId, profileWrites, awsConfigured>>

\* the life of up to MaxListed standups and as many weekend stories
NextLife ==
  \/ PostStandupAt({1}, OneStandupBody, MaxListed)
  \/ GetStandups({2})
  \/ PutStandup(Users, {<<"1">>, <<"2">>}, OneStandupBody)
  \/ DeleteStandup(Users, {<<"1">>, <<"2">>})
  \/ PostStoryAt({1}, OneStoryBody, MaxListed)
  \/ GetStories({2})
  \/ GetStory({2}, {<<"1">>, <<"2">>})
  \/ PutStory(Users, {<<"1">>, <<"2">>}, OneStoryBody)
  \/ DeleteStory(Users, {<<"1">>, <<"2">>})

SpecLife == Init /\ [][NextLife]_vars

\* registrations and profile updates
NextUsers ==
  \/ CreateUser(Usernames)
  \/ PutUser(Actors, UserBodies)

SpecUsers == Init /\ [][NextUsers]_vars

\* the standup, weekend-story and profile routes over a database whose queries
\* can fail
NextFaults ==
  \/ PostStandup(Users, OneStandupBody)
  \/ PostStory(Users, OneStoryBody)
  \/ PutUser(Users, UserBodies)
  \/ StandupRequestFails(Actors, TwoIdParams, StandupBodies)
  \/ StoryRequestFails(Actors, TwoIdParams, StoryBodies)
  \/ UserRequestFails(Actors, UserBodies)

SpecFaults == Init /\ [][NextFaults]_vars

\* profile updates counted on their own
PutUserAt(actors, bodies, max) ==
  \E actor \in actors, body \in bodies, salt \in Salts :
    /\ profileWrites < max
    /\ PutUserHandler(actor, body, salt)
    /\ UNCHANGED <<form, flight, standups, stories, nextStandupId, nextStoryId, now, awsConfigured,
                   createdBy, ownerWrote>>

\* the lists of standups and weekend stories while their authors rename
\* themselves
NextAuthors ==
  \/ PostStandupAt({1}, OneStandupBody, MaxWrites)
  \/ PostStoryAt({2}, OneStoryBody, MaxWrites)
  \/ PutUserAt(Users, {b \in UserBodies : Has(b, "username")}, MaxWrites)
  \/ GetStandups(Users)
  \/ GetStories(Users)

SpecAuthors == Init /\ [][NextAuthors]_vars

\* the by-id routes over the records one user creates
NextOrder ==
  \/ PostStandup({1}, OneStandupBody)
  \/ PostStory({1}, OneStoryBody)
  \/ PutStandup(Users, IdParams, OneStandupBody)
  \/ DeleteStandup(Users, IdParams)
  \/ GetStory(Users, IdParams)
  \/ PutStory(Users, IdParams, OneStoryBody)
  \/ DeleteStory(Users, IdParams)

SpecOrder == Init /\ [][NextOrder]_vars

\* JSON bodies of POST and PUT /api/standups with an empty, a null and a
\* non-empty highlights
HighlightBodies ==
  { [yesterday |-> "y3", today |-> "t3", highlights |-> ""],
    [yesterday |-> "y3", today |-> "t3", highlights |-> Null],
    [yesterday |-> "y3", today |-> "t3", highlights |-> "h2"] }

\* the standup routes that take a body, with the bodies above and those that
\* have or leave out highlights
NextHighlights ==
  \/ PostStandup(Users, ValidBodies \cup HighlightBodies)
  \/ GetStandups(Users)
  \/ PutStandup(Users, {<<"1">>, <<"2">>}, ValidBodies \cup HighlightBodies)
  \/ DeleteStandup(Users, {<<"1">>, <<"2">>})

SpecHighlights == Init /\ [][NextHighlights]_vars

\* the weekend-story form, opened for a new story and for editing
NextForm ==
  \/ OpenCreate
  \/ OpenEdit
  \/ HandleImageChange
  \/ RemoveImage
  \/ SubmitUpdate
  \/ SubmitCreate
  \/ Leave

SpecForm == Init /\ [][NextForm]_vars

(* ------------------------------- claims -------------------------------- *)

StandupIds == {r.id : r \in standups}
StoryIds == {r.id : r \in stories}
ListedIds(list) == {list[i].id : i \in DOMAIN list}

\* C1: a POST /api/standups by a signed-in user with a body that carries
\* yesterday and today answers 201 and stores a row whose userId is the
\* session's user, whatever userId the body carries; GET /api/standups then
\* lists every stored standup with the userId of the user whose POST created it.
C1_PostThenGetAttributesActor ==
  /\ (/\ last.route = "POST /api/standups"
      /\ last.actor \in Users
      /\ {"yesterday", "today"} \subseteq DOMAIN last.req)
       => last.status = 201
  /\ (last.route = "POST /api/standups" /\ last.status = 201)
       => (last.body.userId = last.actor /\ last.body \in standups)
  /\ (last.route = "GET /api/standups" /\ last.status = 200)
       => /\ ListedIds(last.body) = StandupIds
          /\ \A i \in DOMAIN last.body :
               last.body[i].userId = createdBy.standup[last.body[i].id]

\* C1 witness: the list shows, under user 1, a standup whose text came from
\* the body that names user 2 as its userId
C1_Witness ==
  /\ last.route = "GET /api/standups"
  /\ last.status = 200
  /\ \E i \in DOMAIN last.body :
       /\ last.body[i].userId = 1
       /\ last.body[i].yesterday = "y1"
       /\ createdBy.standup[last.body[i].id] = 1

\* C2: a PUT or DELETE /api/standups/:id by a signed-in user who is not the
\* owner of the stored standup answers 403 and leaves the standups table as
\* it was.
C2_ForeignStandupEditRejected ==
  [][ (/\ last'.route \in {"PUT /api/standups/:id", "DELETE /api/standups/:id"}
       /\ last'.actor \in Users
       /\ \E r \in standups : r.id = last'.id /\ r.userId # last'.actor)
        => (last'.status = 403 /\ standups' = standups) ]_vars

\* C2 witness: a DELETE of another user's standup was answered 403 and the
\* standup is still stored
C2_Witness ==
  /\ last.route = "DELETE /api/standups/:id"
  /\ last.status = 403
  /\ \E r \in standups : r.id = last.id /\ r.userId # last.actor

\* C3: a PUT or DELETE /api/weekend-stories/:id by a signed-in user who is not
\* the owner answers 403 and leaves the stories table as it was, and after
\* every request the description and images of each stored story are those its
\* creator wrote last.
C3_StoryWrittenOnlyByOwner ==
  [][ /\ (/\ last'.route \in {"PUT /api/weekend-stories/:id",
                              "DELETE /api/weekend-stories/:id"}
          /\ last'.actor \in Users
          /\ \E r \in stories : r.id = last'.id /\ r.userId # last'.actor)
           => (last'.status = 403 /\ stories' = stories)
      /\ \A r \in stories' :
           /\ r.id \in DOMAIN ownerWrote'
           /\ Content(r) = ownerWrote'[r.id] ]_vars

\* C3 witness: a PUT on another user's story was answered 403
C3_Witness ==
  /\ last.route = "PUT /api/weekend-stories/:id"
  /\ last.status = 403
  /\ \E r \in stories : r.id = last.id /\ r.userId # last.actor
                        /\ Content(r) = ownerWrote[r.id]

\* the ids stored in the table the route works on
IdsOf(route) ==
  IF route \in {"PUT /api/standups/:id", "DELETE /api/standups/:id"}
  THEN StandupIds ELSE StoryIds

ByIdRoutes ==
  {"PUT /api/standups/:id", "DELETE /api/standups/:id", "GET /api/weekend-stories/:id",
   "PUT /api/weekend-stories/:id", "DELETE /api/weekend-stories/:id"}

\* C4: a request of a signed-in user to one of the by-id routes whose id parses
\* to a number that no stored record has is answered 404, and no row of any
\* table changes.
C4_UnknownIdIs404 ==
  [][ (/\ last'.route \in ByIdRoutes
       /\ last'.actor \in Users
       /\ ~isNaN(last'.id)
       /\ last'.id \notin IdsOf(last'.route))
        => (last'.status = 404 /\ db' = db) ]_vars

\* C4 witness: a DELETE of a story id that is not stored, while another story
\* is, was answered 404
C4_Witness ==
  /\ last.route = "DELETE /api/weekend-stories/:id"
  /\ last.status = 404
  /\ last.id \notin StoryIds
  /\ stories # {}

ProtectedRoutes ==
  {"POST /api/standups", "GET /api/standups", "PUT /api/standups/:id",
   "DELETE /api/standups/:id", "POST /api/weekend-stories", "GET /api/weekend-stories",
   "GET /api/weekend-stories/:id", "PUT /api/weekend-stories/:id",
   "DELETE /api/weekend-stories/:id", "PUT /api/user", "POST /api/analyze",
   "POST /api/analyze-standups", "GET /api/prompt-suggestions"}

\* C5: a request without an authenticated session to any protected route is
\* answered 401 Unauthorized after no storage operation and no provider call.
C5_UnauthenticatedIs401 ==
  (last.route \in ProtectedRoutes /\ ~isAuthenticated(last.actor))
    => /\ last.status = 401
       /\ last.body = Unauthorized
       /\ last.ops = 0
       /\ last.calls = 0

\* C5 witness: an unauthenticated request for an analysis was turned away
\* while standups were stored and the credentials configured
C5_Witness ==
  /\ last.route = "POST /api/analyze"
  /\ last.actor = NoUser
  /\ last.status = 401
  /\ standups # {}
  /\ awsConfigured

\* C6: the userId of every stored standup and weekend story is the id of the
\* user whose POST created it.
C6_UserIdIsCreator ==
  /\ \A r \in standups : r.id \in DOMAIN createdBy.standup
                         /\ r.userId = createdBy.standup[r.id]
  /\ \A r \in stories : r.id \in DOMAIN createdBy.story
                        /\ r.userId = createdBy.story[r.id]

\* C6 witness: the owner's PUT whose body names another user as userId was
\* carried out
C6_Witness ==
  /\ last.route = "PUT /api/weekend-stories/:id"
  /\ last.status = 200
  /\ Has(last.req, "userId")
  /\ last.req.userId # last.actor
  /\ last.body.userId = last.actor

\* C7: a PUT /api/standups/:id or PUT /api/weekend-stories/:id that is answered
\* 400, 403 or 404 leaves every row of every table as it was.
C7_FailedPutWritesNothing ==
  [][ (/\ last'.route \in {"PUT /api/standups/:id", "PUT /api/weekend-stories/:id"}
       /\ last'.status \in {400, 403, 404})
        => db' = db ]_vars

\* C7 witness: the owner's PUT of a body that fails validation was answered
\* 400 after the existence and ownership checks
C7_Witness ==
  /\ last.route = "PUT /api/standups/:id"
  /\ last.status = 400
  /\ last.ops = 1
  /\ \E r \in standups : r.id = last.id /\ r.userId = last.actor

\* number of stored standups created after the standup with this id
Newer(rows, id) ==
  Cardinality({r \in rows : \E o \in rows : o.id = id /\ r.createdAt > o.createdAt})

\* C8: GET /api/standups lists every stored standup exactly once, each with
\* its stored columns, in order of non-increasing createdAt; a PUT that is
\* carried out leaves every standup behind the same standups as before.
C8_ListNewestFirst ==
  [][ /\ (last'.route = "GET /api/standups" /\ last'.status = 200)
           => /\ Len(last'.body) = Cardinality(standups)
              /\ {Pick(last'.body[i], DOMAIN last'.body[i] \ {"username"}) :
                    i \in DOMAIN last'.body} = standups
              /\ \A i, j \in DOMAIN last'.body :
                   i < j => last'.body[i].createdAt >= last'.body[j].createdAt
      /\ (last'.route = "PUT /api/standups/:id" /\ last'.status = 200)
           => /\ StandupIds = {r.id : r \in standups'}
              /\ \A id \in StandupIds : Newer(standups', id) = Newer(standups, id) ]_vars

\* C8 witness: a list of two standups with different texts, the one created
\* later first
C8_Witness ==
  /\ last.route = "GET /api/standups"
  /\ last.status = 200
  /\ Len(last.body) = 2
  /\ last.body[1].createdAt > last.body[2].createdAt
  /\ last.body[1].id > last.body[2].id
  /\ last.body[2].yesterday # last.body[1].yesterday

\* C9: a weekend story created or updated with a body without images is
\* returned with images = [], and no response shows a story with images = null.
C9_ImagesNeverNull ==
  /\ (/\ last.route \in {"POST /api/weekend-stories", "PUT /api/weekend-stories/:id"}
      /\ last.status \in {200, 201}
      /\ ~Has(last.req, "images"))
       => last.body.images = JArr(<< >>)
  /\ (last.route = "GET /api/weekend-stories/:id" /\ last.status = 200)
       => last.body.images # JNull
  /\ (last.route = "GET /api/weekend-stories" /\ last.status = 200)
       => \A i \in DOMAIN last.body : last.body[i].images # JNull

\* C10: GET /api/prompt-suggestions of a signed-in user, when the credentials
\* are cleared or the provider call throws, is answered 200 with exactly the
\* five default prompts.
C10_SuggestionsDefaultWhenUnreachable ==
  (/\ last.route = "GET /api/prompt-suggestions"
   /\ last.actor \in Users
   /\ \/ ~last.req.configured
      \/ (Has(last.req, "outcome") /\ last.req.outcome.kind = "throw"))
    => /\ last.status = 200
       /\ last.body = [suggestions |-> getDefaultPrompts]

\* the prompt of the body is missing or the empty string
EmptyPrompt(body) == ~Has(body, "prompt") \/ body.prompt = JStr("")
\* the prompt of the body is a string with characters in it
ValidPrompt(body) ==
  Has(body, "prompt") /\ IsString(body.prompt) /\ body.prompt # JStr("")

\* C11 as stated: POST /api/analyze of a signed-in user answers 400 whenever
\* the prompt is missing or empty, and whenever the prompt is valid and no
\* standup is stored.
C11_AnalyzeRejects ==
  (last.route = "POST /api/analyze" /\ last.actor \in Users)
    => /\ EmptyPrompt(last.req.body) => last.status = 400
       /\ (ValidPrompt(last.req.body) /\ standups = {}) => last.status = 400

\* C11 amended: while the AWS credentials are configured, POST /api/analyze of
\* a signed-in user answers 400 whenever the prompt is missing or empty, and
\* whenever the prompt is valid and no standup is stored.
C11_AnalyzeRejectsWhenConfigured ==
  (last.route = "POST /api/analyze" /\ last.actor \in Users /\ last.req.configured)
    => /\ EmptyPrompt(last.req.body) => last.status = 400
       /\ (ValidPrompt(last.req.body) /\ standups = {}) => last.status = 400

\* C11 witness: an empty prompt was turned down with 400 while credentials
\* were configured and a standup was stored
C11_Witness ==
  /\ last.route = "POST /api/analyze"
  /\ last.status = 400
  /\ last.req.configured
  /\ last.req.body = [prompt |-> JStr("")]
  /\ standups # {}

\* the body supplies at least one standup: standups is a non-empty array
SuppliesStandups(body) ==
  Has(body, "standups") /\ IsArray(body.standups) /\ body.standups[2] # << >>

\* C12: POST /api/analyze-standups of a signed-in user answers 400 without a
\* provider call when the prompt is missing or empty or when standups is absent,
\* not an array or an empty array; the provider is called only for a non-empty
\* prompt and at least one standup.
C12_AnalyzeStandupsNeedsData ==
  (last.route = "POST /api/analyze-standups" /\ last.actor \in Users)
    => /\ (EmptyPrompt(last.req.body) \/ ~SuppliesStandups(last.req.body))
            => (last.status = 400 /\ last.calls = 0)
       /\ last.calls > 0
            => (~EmptyPrompt(last.req.body) /\ SuppliesStandups(last.req.body))

AnalysisRoutes == {"POST /api/analyze", "POST /api/analyze-standups"}

\* the provider call threw, or its payload holds no completion text
NoCompletion(outcome) == outcome.kind \in {"throw", "garbage", "nocontent"}

\* C13: an analysis request whose provider call throws or yields a payload
\* without a completion text is answered 500 with a non-empty message, never
\* 200 with an analysis.
C13_AnalysisFailureIsError ==
  (/\ last.route \in AnalysisRoutes
   /\ last.calls > 0
   /\ NoCompletion(last.req.outcome))
    => /\ last.status = 500
       /\ Has(last.body, "message")
       /\ last.body.message # ""

\* the fields of a standup a PUT can set
MutableFields == {"yesterday", "today", "blockers", "highlights", "standupDate"}

\* C14: when a successful PUT /api/standups/:id with payload P2 follows a
\* successful PUT on the same standup with payload P1, the record returned and
\* stored carries P2's value in every mutable field P2 supplies and in no
\* mutable field the value that only P1 supplied.
C14_UpdateReplacesMutableFields ==
  [][ (/\ last.route = "PUT /api/standups/:id" /\ last.status = 200
       /\ last'.route = "PUT /api/standups/:id" /\ last'.status = 200
       /\ last'.id = last.id)
        => /\ last'.body \in standups'
           /\ \A f \in MutableFields \cap DOMAIN last'.req :
                last'.body[f] = last'.req[f]
           /\ \A f \in (MutableFields \cap DOMAIN last.req) \ DOMAIN last'.req :
                last'.body[f] # last.req[f] ]_vars

\* the body carries a non-empty yesterday and a non-empty today
HasTexts(body) ==
  /\ Has(body, "yesterday") /\ body.yesterday # ""
  /\ Has(body, "today") /\ body.today # ""

\* C15: every stored standup has a non-empty yesterday and today, and a POST
\* /api/standups or PUT /api/standups/:id is carried out (201, 200) only when
\* its body has both.
C15_TextsNonEmpty ==
  /\ \A r \in standups : r.yesterday # "" /\ r.today # ""
  /\ (/\ last.route \in {"POST /api/standups", "PUT /api/standups/:id"}
      /\ last.status \in {200, 201})
       => HasTexts(last.req)

\* session s runs the UPDATE statement of a PUT /api/standups/:id in this step
PutWrites(s) ==
  /\ flight[s].pc = "checked"
  /\ flight[s].route = "PUT /api/standups/:id"
  /\ flight'[s].pc = "done"

\* C16: the UPDATE of an owner's PUT /api/standups/:id that meets the standup
\* is answered 200 whatever other PUT wrote the standup since the handler's
\* check, and the stored standup is then the row this UPDATE returned.
C16_LastWriteWins ==
  [][ \A s \in Sessions :
        (PutWrites(s) /\ getStandupById(flight[s].id) # {})
          => /\ flight'[s].status = 200
             /\ flight'[s].body.id = flight[s].id
             /\ {r \in standups' : r.id = flight[s].id} = {flight'[s].body} ]_vars

\* C16 witness: two sessions have 200 for their PUTs of different bodies on
\* the same standup; one of them had checked before the other wrote and wrote
\* after it, and its row is the one stored
C16_Witness ==
  \E s, t \in Sessions :
    /\ s # t
    /\ flight[s].pc = "done" /\ flight[t].pc = "done"
    /\ flight[s].route = "PUT /api/standups/:id" /\ flight[t].route = flight[s].route
    /\ flight[s].status = 200 /\ flight[t].status = 200
    /\ flight[s].id = flight[t].id
    /\ flight[s].req # flight[t].req
    /\ flight[s].stale
    /\ flight[s].body \in standups
    /\ flight[t].body \notin standups

\* C17: the UPDATE of a PUT /api/standups/:id that meets no standup, because a
\* DELETE removed it after the handler's check, is not answered 200 and
\* reports no updated record.
C17_UpdateOfDeletedFails ==
  [][ \A s \in Sessions :
        (PutWrites(s) /\ getStandupById(flight[s].id) = {})
          => /\ flight'[s].status # 200
             /\ ~Has(flight'[s].body, "id") ]_vars

\* the ids handed out so far that no stored row has: the ids of deleted rows
GoneStandups == (1 .. (nextStandupId - 1)) \ StandupIds
GoneStories == (1 .. (nextStoryId - 1)) \ StoryIds

\* C18: a DELETE answered 204 leaves the id without a row; an id whose row was
\* deleted never has a row again, is in no list response, gets 404 from every
\* PUT and DELETE of a signed-in user, and is not given to a created record.
C18_DeletedStaysDeleted ==
  [][ /\ (last'.route = "DELETE /api/standups/:id" /\ last'.status = 204)
           => last'.id \in GoneStandups'
      /\ (last'.route = "DELETE /api/weekend-stories/:id" /\ last'.status = 204)
           => last'.id \in GoneStories'
      /\ GoneStandups \subseteq GoneStandups'
      /\ GoneStories \subseteq GoneStories'
      /\ (last'.route = "GET /api/standups" /\ last'.status = 200)
           => ListedIds(last'.body) \cap GoneStandups = {}
      /\ (last'.route = "GET /api/weekend-stories" /\ last'.status = 200)
           => ListedIds(last'.body) \cap GoneStories = {}
      /\ (/\ last'.route \in {"PUT /api/standups/:id", "DELETE /api/standups/:id"}
          /\ last'.actor \in Users
          /\ last'.id \in GoneStandups)
           => last'.status = 404
      /\ (/\ last'.route \in {"PUT /api/weekend-stories/:id",
                              "DELETE /api/weekend-stories/:id"}
          /\ last'.actor \in Users
          /\ last'.id \in GoneStories)
           => last'.status = 404
      /\ (last'.route = "POST /api/standups" /\ last'.status = 201)
           => last'.body.id \notin GoneStandups \cup StandupIds
      /\ (last'.route = "POST /api/weekend-stories" /\ last'.status = 201)
           => last'.body.id \notin GoneStories \cup StoryIds ]_vars

\* C18 witness: the owner's PUT on the id of a deleted standup was answered 404
\* after a later standup was created
C18_Witness ==
  /\ last.route = "PUT /api/standups/:id"
  /\ last.actor = 1
  /\ last.status = 404
  /\ last.id \in GoneStandups
  /\ \E r \in standups : r.id > last.id

\* C19: PUT /api/user leaves the row of every user but the caller as it was,
\* and in the caller's row id, firstName, lastName and avatar; a password of
\* the body that is stored is stored as hashPassword made it with a salt,
\* not as sent.
C19_ProfileUpdateFrame ==
  [][ last'.route = "PUT /api/user"
        => /\ DOMAIN users' = DOMAIN users
           /\ \A u \in DOMAIN users :
                /\ u # last'.actor => users'[u] = users[u]
                /\ \A f \in DOMAIN users[u] \ {"username", "password", "jiraProfileId"} :
                     users'[u][f] = users[u][f]
           /\ (last'.status = 200 /\ Truthy(last'.req, "password"))
                => /\ users'[last'.actor].password # last'.req.password
                   /\ \E salt \in Salts :
                        users'[last'.actor].password =
                          hashPassword(last'.req.password, salt) ]_vars

\* C19 witness: a body that carries id, firstName and avatar next to
\* jiraProfileId was carried out, and the caller's row has the new
\* jiraProfileId and its old id, firstName and avatar
C19_Witness ==
  /\ last.route = "PUT /api/user"
  /\ last.status = 200
  /\ {"id", "firstName", "avatar", "jiraProfileId"} \subseteq DOMAIN last.req
  /\ users[last.actor].jiraProfileId = last.req.jiraProfileId
  /\ users[last.actor].firstName = Null
  /\ users[last.actor].id = last.actor
  /\ last.req.id # last.actor

\* no two user rows have the same username
UniqueUsernames(rows) ==
  \A a, b \in DOMAIN rows : a # b => rows[a].username # rows[b].username

\* the username is that of a user row other than row id
TakenByOther(username, id) ==
  \E o \in DOMAIN users : o # id /\ users[o].username = username

\* C20: no two user rows ever have the same username, and a createUser or a
\* PUT /api/user that asks for the username of another row leaves every user
\* row as it was.
C20_UsernamesUnique ==
  /\ UniqueUsernames(users)
  /\ [][ /\ UniqueUsernames(users')
         /\ (/\ last'.route = "storage.createUser"
             /\ TakenByOther(last'.req.username, 0))
              => users' = users
         /\ (/\ last'.route = "PUT /api/user"
             /\ last'.actor \in Users
             /\ Truthy(last'.req, "username")
             /\ TakenByOther(last'.req.username, last'.actor))
              => users' = users ]_vars

\* C20 witness: a PUT /api/user asking for another user's username was turned
\* down with 500 and the rows kept their usernames
C20_Witness ==
  /\ last.route = "PUT /api/user"
  /\ last.status = 500
  /\ Truthy(last.req, "username")
  /\ TakenByOther(last.req.username, last.actor)
  /\ users[last.actor].username # last.req.username

\* C21: the id and createdAt of a standup are the serial and the clock at its
\* creation, whatever id and createdAt the POST body carries, and no request,
\* in particular no PUT /api/standups/:id whatever id and createdAt its body
\* carries, changes the id or createdAt of a stored standup.
C21_IdAndCreatedAtFixed ==
  [][ /\ (last'.route = "POST /api/standups" /\ last'.status = 201)
           => /\ last'.body.id = nextStandupId
              /\ last'.body.createdAt = now'
              /\ last'.body \in standups'
      /\ \A r \in standups : \A q \in standups' :
           q.id = r.id => q.createdAt = r.createdAt
      /\ last'.route = "PUT /api/standups/:id"
           => {r.id : r \in standups'} = StandupIds
      /\ (last'.route = "PUT /api/standups/:id" /\ last'.status = 200)
           => last'.body.id = last'.id ]_vars

\* C21 witness: a PUT whose body carries an id and a createdAt other than the
\* stored ones was carried out, and the row returned has neither
C21_Witness ==
  /\ last.route = "PUT /api/standups/:id"
  /\ last.status = 200
  /\ {"id", "createdAt"} \subseteq DOMAIN last.req
  /\ last.body \in standups
  /\ last.body.id # last.req.id
  /\ last.body.createdAt # last.req.createdAt

AIRoutes ==
  {"POST /api/analyze", "POST /api/analyze-standups", "GET /api/prompt-suggestions"}

\* C22: a request to POST /api/analyze, POST /api/analyze-standups or GET
\* /api/prompt-suggestions, whatever its answer and whether or not the provider
\* was called, leaves the user, standup and weekend-story rows and the serials
\* of the tables as they were.
C22_AnalysisReadsOnly ==
  [][ last'.route \in AIRoutes
        => /\ db' = db
           /\ nextStandupId' = nextStandupId
           /\ nextStoryId' = nextStoryId ]_vars

\* C22 witness: an analysis whose provider call threw was answered 500 and the
\* standups it read are still stored
C22_Witness ==
  /\ last.route = "POST /api/analyze"
  /\ last.status = 500
  /\ last.calls = 1
  /\ standups # {}

\* C23: an analysis request whose provider call yields a completion text is
\* answered 200 with exactly that text as its analysis, the empty text
\* included.
C23_AnalysisIsCompletionVerbatim ==
  (/\ last.route \in AnalysisRoutes
   /\ last.calls > 0
   /\ last.req.outcome.kind = "text")
    => /\ last.status = 200
       /\ last.body = [analysis |-> last.req.outcome.text.raw]

StorageRoutes ==
  {"POST /api/standups", "GET /api/standups", "PUT /api/standups/:id",
   "DELETE /api/standups/:id", "POST /api/weekend-stories", "GET /api/weekend-stories",
   "GET /api/weekend-stories/:id", "PUT /api/weekend-stories/:id",
   "DELETE /api/weekend-stories/:id", "PUT /api/user"}

\* C24: a request to a standup or weekend-story handler or to PUT /api/user
\* during which a storage operation throws is answered 500 with the body
\* {message: "Internal server error"} and nothing of the error, and no row
\* changes.
C24_StorageFailureIsGeneric500 ==
  [][ (last'.route \in StorageRoutes /\ Has(last', "error"))
        => /\ last'.status = 500
           /\ last'.body = [message |-> "Internal server error"]
           /\ last'.body.message # last'.error.message
           /\ db' = db ]_vars

\* C24 witness: the UPDATE of the owner's PUT /api/standups/:id threw after
\* the existence, ownership and validation checks, and the answer was 500
C24_Witness ==
  /\ last.route = "PUT /api/standups/:id"
  /\ Has(last, "error")
  /\ last.ops = 2
  /\ last.status = 500
  /\ \E r \in standups : r.id = last.id /\ r.userId = last.actor

\* an id no user row has
NoSuchUser == Cardinality(DOMAIN users) + 1

InOrder(id, rows, actor, owned, invalid, ok) ==
  IF isNaN(id) THEN 400
  ELSE IF \A r \in rows : r.id # id THEN 404
  ELSE IF owned /\ \E r \in rows : r.id = id /\ r.userId # actor THEN 403
  ELSE IF invalid THEN 400
  ELSE ok

\* the body lacks a field the standup, the weekend story must have
LacksTexts(body) == ~({"yesterday", "today"} \subseteq DOMAIN body)
LacksDescription(body) == ~Has(body, "description")

\* C26: in every reachable state, each by-id request of a signed-in user gets
\* the status of the first check it fails in the order id-parse (400),
\* existence (404), ownership (403), body validation (400), and a request
\* whose :id does not parse is answered 400 after no storage operation.
C26_ChecksInOrder ==
  \A actor \in Users, idParam \in IdParams :
    LET id == parseInt(idParam) IN
    /\ \A body \in StandupBodies :
         ENABLED (/\ PutStandupHandler(actor, idParam, body)
                  /\ last'.status = InOrder(id, standups, actor, TRUE, LacksTexts(body), 200)
                  /\ isNaN(id) => last'.ops = 0)
    /\ ENABLED (/\ DeleteStandupHandler(actor, idParam)
                /\ last'.status = InOrder(id, standups, actor, TRUE, FALSE, 204)
                /\ isNaN(id) => last'.ops = 0)
    /\ ENABLED (/\ GetStoryHandler(actor, idParam)
                /\ last'.status = InOrder(id, stories, actor, FALSE, FALSE, 200)
                /\ isNaN(id) => last'.ops = 0)
    /\ \A body \in StoryBodies :
         ENABLED (/\ PutStoryHandler(actor, idParam, body)
                  /\ last'.status = InOrder(id, stories, actor, TRUE,
                                            LacksDescription(body), 200)
                  /\ isNaN(id) => last'.ops = 0)
    /\ ENABLED (/\ DeleteStoryHandler(actor, idParam)
                /\ last'.status = InOrder(id, stories, actor, TRUE, FALSE, 204)
                /\ isNaN(id) => last'.ops = 0)

\* C26 witness: a PUT on another user's standup was answered 403, and the
\* same request with a body that fails validation is answered 403 as well
C26_Witness ==
  /\ last.route = "PUT /api/standups/:id"
  /\ last.status = 403
  /\ \E r \in standups : r.id = last.id /\ r.userId # last.actor
  /\ \E body \in StandupBodies :
       /\ LacksTexts(body)
       /\ ENABLED (/\ PutStandupHandler(last.actor, <<"1">>, body)
                   /\ last'.status = 403
                   /\ last'.id = last.id)

\* C27: the highlights of every stored standup is null or a non-empty string;
\* a POST or PUT that is carried out stores null when the highlights of its
\* body is absent, null or empty, whatever was stored before, and the
\* highlights of the body otherwise.
C27_HighlightsNullOrNonEmpty ==
  /\ \A r \in standups : r.highlights # ""
  /\ [][ (/\ last'.route \in {"POST /api/standups", "PUT /api/standups/:id"}
          /\ last'.status \in {200, 201})
           => /\ last'.body \in standups'
              /\ last'.body.highlights # ""
              /\ last'.body.highlights =
                   IF Truthy(last'.req, "highlights") THEN last'.req.highlights
                   ELSE Null ]_vars

\* C27 witness: a PUT whose body has no highlights was carried out on a
\* standup created with highlights (its blockers are still those of the body
\* that created it), and the stored highlights is null
C27_Witness ==
  /\ last.route = "PUT /api/standups/:id"
  /\ last.status = 200
  /\ ~Has(last.req, "highlights")
  /\ ~Has(last.req, "blockers")
  /\ last.body.blockers = "b1"
  /\ last.body.highlights = Null
  /\ last.body \in standups

\* the provider's reply holds a JSON object whose prompts is an array
HoldsPrompts(outcome) ==
  /\ outcome.kind = "text"
  /\ outcome.text.json[1] = "object"
  /\ Has(outcome.text.json[2], "prompts")
  /\ IsArray(outcome.text.json[2].prompts)

\* C28: a request that calls generatePromptSuggestionsWithBedrock calls the
\* provider once and is answered with what the function returned: the prompts
\* array of the provider's reply when the reply holds one, and otherwise (the
\* call threw, the reply is not JSON, has no completion, no JSON object, JSON
\* that does not parse, or prompts that is not an array) the five default
\* strings.
C28_SuggestionsParsedOrDefault ==
  (last.route = "GET /api/prompt-suggestions" /\ last.calls > 0)
    => /\ last.calls = 1
       /\ last.status = 200
       /\ HoldsPrompts(last.req.outcome)
            => last.body.suggestions = last.req.outcome.text.json[2].prompts[2]
       /\ ~HoldsPrompts(last.req.outcome)
            => /\ Len(last.body.suggestions) = 5
               /\ last.body.suggestions = getDefaultPrompts

\* C28 witness: the reply held braces that do not parse as JSON and the five
\* defaults were returned
C28_Witness ==
  /\ last.route = "GET /api/prompt-suggestions"
  /\ last.calls = 1
  /\ last.req.outcome.kind = "text"
  /\ last.req.outcome.text.json = <<"invalid">>
  /\ last.body.suggestions = getDefaultPrompts

\* the previews of stored images, of picked files
StoredPreviews(f) == SelectSeq(f.imagePreviewUrls, LAMBDA u : u[1] = "stored")
AddedPreviews(f) == SelectSeq(f.imagePreviewUrls, LAMBDA u : u[1] = "blob")

\* C29: the imageUrls of the PUT the edit form sends are the stored images
\* whose previews are still in the form, followed by one URL for each picked
\* file; a stored image removed with removeImage is not among them.
C29_UpdateSendsKeptImages ==
  form.sent = "PUT"
    => /\ Len(form.imageUrls) = Len(StoredPreviews(form)) + Len(form.imageFiles)
       /\ SubSeq(form.imageUrls, 1, Len(StoredPreviews(form))) = StoredPreviews(form)
       /\ \A i \in 1 .. Len(form.imageUrls) :
            form.imageUrls[i][1] = "stored"
              => \E j \in DOMAIN form.imagePreviewUrls :
                   form.imagePreviewUrls[j] = form.imageUrls[i]

\* C30: the previews of picked files are, one for one and in order, the object
\* URLs of imageFiles.
C30_PreviewsMatchFiles ==
  /\ Len(AddedPreviews(form)) = Len(form.imageFiles)
  /\ \A i \in DOMAIN form.imageFiles :
       i <= Len(AddedPreviews(form))
         => AddedPreviews(form)[i] = createObjectURL(form.imageFiles[i])

====
